---------------------------- MODULE Spec2Model ----------------------------
(***************************************************************************)
(* A model of the denops-router Router (src/router.ts, lines 1-365) with   *)
(* its opener (src/opener.ts), the buffer-name codec it imports from       *)
(* @denops/std/bufname, and the part of the Vim host that the Router's     *)
(* autocommands and commands act on.                                        *)
(*                                                                         *)
(* Strings are sequences of one-character strings, so that formatting and  *)
(* parsing a buffer name are real conversions.  An optional value is a     *)
(* record [some, val].                                                     *)
(***************************************************************************)
EXTENDS Integers, Sequences, FiniteSets, TLC

(***************************************************************************)
(* Bounds of the model.                                                    *)
(***************************************************************************)
\* buffers the host can hold (buffer numbers 1..MaxBuf)
MaxBuf == 2
\* BufWriteCmd autocommands one buffer can accumulate
MaxWriteCmds == 2
\* windows of the host
MaxWin == 2
MaxWords == 3
\* characters of a scheme given to the constructor
MaxScheme == 2
\* the longest word given to pascalWords
MaxChars == 3

(***************************************************************************)
(* Strings.                                                                *)
(***************************************************************************)
None == "none"

Absent == [some |-> FALSE, val |-> <<>>]

Some(v) == [some |-> TRUE, val |-> v]

StartsWith(s, pat) ==
  /\ Len(pat) <= Len(s)
  /\ SubSeq(s, 1, Len(pat)) = pat

Drop(s, n) == SubSeq(s, n + 1, Len(s))

RECURSIVE ReplaceAll(_, _, _)
ReplaceAll(s, pat, rep) ==
  IF s = <<>> THEN <<>>
  ELSE IF StartsWith(s, pat)
       THEN rep \o ReplaceAll(Drop(s, Len(pat)), pat, rep)
       ELSE <<Head(s)>> \o ReplaceAll(Tail(s), pat, rep)

\* index of the first occurrence of the character c in s, 0 when there is none
IndexOf(s, c) ==
  IF \E i \in 1..Len(s) : s[i] = c
  THEN CHOOSE i \in 1..Len(s) : s[i] = c /\ \A j \in 1..(i - 1) : s[j] # c
  ELSE 0

\* index of the first occurrence of either character, 0 when there is none
IndexOfAny(s, cs) ==
  IF \E i \in 1..Len(s) : s[i] \in cs
  THEN CHOOSE i \in 1..Len(s) : s[i] \in cs /\ \A j \in 1..(i - 1) : s[j] \notin cs
  ELSE 0

RECURSIVE Split(_, _)
Split(s, c) ==
  LET i == IndexOf(s, c) IN
  IF i = 0 THEN <<s>>
  ELSE <<SubSeq(s, 1, i - 1)>> \o Split(Drop(s, i), c)

RECURSIVE Join(_, _)
Join(parts, sep) ==
  IF parts = <<>> THEN <<>>
  ELSE IF Len(parts) = 1 THEN parts[1]
  ELSE parts[1] \o sep \o Join(Tail(parts), sep)

Letters == {"a", "b", "f", "k", "v", "s", "t"}

IsAlpha(s) == \A i \in 1..Len(s) : s[i] \in Letters

(***************************************************************************)
(* @denops/std/bufname: format and parse.                                  *)
(*   format: scheme://<path with ; and # percent-encoded>[;params][#frag]  *)
(*   parse : the scheme is what precedes "://"; of the rest, the path runs  *)
(*           to the first ";" or "#", the params from a ";" to the next    *)
(*           "#", the fragment from that "#" to the end.                   *)
(* Inputs are drawn from an alphabet without "%", whitespace and the       *)
(* characters Vim cannot hold in a buffer name, so the general percent     *)
(* encoding reduces to the two replacements below.                         *)
(***************************************************************************)
SchemeSep == <<":", "/", "/">>

encodePathOnlySemicolon(expr) == ReplaceAll(expr, <<";">>, <<"%", "3", "B">>)

encodePath(expr) ==
  ReplaceAll(ReplaceAll(expr, <<";">>, <<"%", "3", "B">>), <<"#">>, <<"%", "2", "3">>)

decode(s) ==
  ReplaceAll(ReplaceAll(s, <<"%", "3", "B">>, <<";">>), <<"%", "2", "3">>, <<"#">>)

\* URLSearchParams(params).toString(): k=v pairs joined by &
RECURSIVE paramPairs(_)
paramPairs(ps) ==
  IF ps = <<>> THEN <<>>
  ELSE <<ps[1][1] \o <<"=">> \o ps[1][2]>> \o paramPairs(Tail(ps))

paramsToString(ps) == Join(paramPairs(ps), <<"&">>)

\* new URLSearchParams(str): split on &, then on the first =
RECURSIVE pairsOf(_)
pairsOf(parts) ==
  IF parts = <<>> THEN <<>>
  ELSE LET p == parts[1]
           i == IndexOf(p, "=")
           rest == pairsOf(Tail(parts))
       IN IF p = <<>> THEN rest
          ELSE IF i = 0 THEN <<<<p, <<>>>>>> \o rest
          ELSE <<<<SubSeq(p, 1, i - 1), Drop(p, i)>>>> \o rest

paramsFromString(s) == pairsOf(Split(s, "&"))

\* a Bufname value
Bufname(scheme, expr, params, fragment) ==
  [scheme |-> scheme, expr |-> expr, params |-> params, fragment |-> fragment]

formatOk(b) == IsAlpha(b.scheme)

format(b) ==
  b.scheme \o SchemeSep \o encodePath(b.expr)
    \o (IF b.params.some THEN <<";">> \o paramsToString(b.params.val) ELSE <<>>)
    \o (IF b.fragment.some /\ b.fragment.val # <<>>
        THEN <<"#">> \o b.fragment.val ELSE <<>>)

\* the scheme pattern is greedy: the last "://" that has something before it
schemeEnd(s) ==
  LET at == {i \in 2..Len(s) : StartsWith(Drop(s, i - 1), SchemeSep)} IN
  IF at = {} THEN 0 ELSE CHOOSE i \in at : \A j \in at : j <= i

parseOk(s) == schemeEnd(s) # 0

\* an optional group of the pattern: absent when it matched nothing
optParams(m2) == IF m2 # <<>> THEN Some(paramsFromString(decode(m2))) ELSE Absent

optFragment(m3) == IF m3 # <<>> THEN Some(decode(m3)) ELSE Absent

\* after is what follows the ";" that ends the path; h is the index of its first "#"
parseParams(scheme, m1, after, h) ==
  Bufname(scheme, decode(m1),
          optParams(IF h = 0 THEN after ELSE SubSeq(after, 1, h - 1)),
          optFragment(IF h = 0 THEN <<>> ELSE Drop(after, h)))

\* remain is what follows "://"; d is the index of its first ";" or "#"
parseRemain(scheme, remain, d) ==
  IF d = 0 THEN Bufname(scheme, decode(remain), Absent, Absent)
  ELSE IF remain[d] = "#"
  THEN Bufname(scheme, decode(SubSeq(remain, 1, d - 1)), Absent,
               optFragment(Drop(remain, d)))
  ELSE parseParams(scheme, SubSeq(remain, 1, d - 1), Drop(remain, d),
                   IndexOf(Drop(remain, d), "#"))

\* e is the index of the "://" that ends the scheme
parseAt(s, e) ==
  parseRemain(SubSeq(s, 1, e - 1), Drop(s, e + 2), IndexOfAny(Drop(s, e + 2), {";", "#"}))

parse(s) == parseAt(s, schemeEnd(s))

(***************************************************************************)
(* The Router's configuration and the handlers the plugin registers.       *)
(***************************************************************************)
\* new Router(scheme): the fixed scheme
Scheme == <<"s">>

\* the dispatcher prefix (dispatch's default)
Prefixes == {"router"}

\* Handler objects (types.ts): every handler has load; save and actions are optional
Handlers == {"hRO", "hRW", "hAlt"}

\* the handlers whose object has a save member
SaveDefined == {"hRW", "hAlt"}

\* a variant of the test of handler.save that finds a save on every handler
HasSaveAlways(h) == TRUE

\* lines 80 and 103: the truthiness test of handler.save
HasSave(h) == h \in SaveDefined

ActionsOf(h) == IF h \in {"hRO", "hAlt"} THEN {"play"} ELSE {}

ActionNames == {"play", "stop"}

\* paths the plugin registers and opens: "a" is a proper prefix of "ab"
Paths == {<<"a">>, <<"a", "b">>}

ParamsKV == Some(<< <<(<<"k">>), (<<"v">>)>> >>)

FragmentF == Some(<<"f">>)

\* (params, fragment) arguments of bufname
NameArgs == { <<p, f>> : p \in {Absent, ParamsKV}, f \in {Absent, FragmentF} }

\* (params, fragment) arguments of open, preload and of names typed by the user
OpenArgs == { <<Absent, Absent>>, <<ParamsKV, FragmentF>> }

\* the Split type, and "undefined" for an opener without a split member
Splits ==
  {"undefined", "", "none", "split-top", "split-above", "split-below", "split-bottom",
   "split-leftmost", "split-left", "split-right", "split-rightmost", "split-tab"}

Openers == { [reuse |-> r, split |-> sp] : r \in BOOLEAN, sp \in Splits }

BufNrs == 1..MaxBuf

VARIABLES
  handlers,        \* Router.#handlers: a function from the registered paths to handlers
  defaultHandler,  \* Router.#defaultHandler, None when unset
  dispatcher,      \* prefixes whose methods are in the dispatcher
  readCmds,        \* BufReadCmd autocommands of the Router's augroup (their prefixes)
  bufs,            \* the host's buffers
  nbufs,           \* number of buffers created so far
  wins,            \* the host's windows: the buffer each displays (0: not a Router buffer)
  curw,            \* the focused window
  pending,         \* the handler callback that is suspended, if any
  commands,        \* the host's user commands: what each requests when invoked
  last             \* what the last step did (observation only)

vars == <<handlers, defaultHandler, dispatcher, readCmds, bufs, nbufs, wins, curw,
          pending, commands, last>>

(***************************************************************************)
(* Router.#match                                                           *)
(***************************************************************************)
\* a variant of line 48 that compares by prefix: parsed.expr.startsWith(path)
PathMatchesPrefix(path, expr) == StartsWith(expr, path)

\* line 48: path === parsed.expr
PathMatches(path, expr) == path = expr

MatchResult(err, parsed, path, handler) ==
  [err |-> err, bufname |-> parsed, path |-> path, handler |-> handler]

NoBufname == Bufname(<<>>, <<>>, Absent, Absent)

\* a variant of line 55 that reports no path for a fallback match
fallbackPathNone(parsed) == <<>>

\* line 55: the path of a fallback match is the path of the name
fallbackPath(parsed) == parsed.expr

\* a variant of #match that asks the fallback before the registered paths
MatchFallbackFirst(bufname) ==
  IF ~parseOk(bufname) THEN MatchResult("Malformed", NoBufname, <<>>, None)
  ELSE IF parse(bufname).scheme # Scheme
  THEN MatchResult("InvalidScheme", parse(bufname), <<>>, None)
  ELSE IF defaultHandler # None
  THEN MatchResult("ok", parse(bufname), fallbackPath(parse(bufname)), defaultHandler)
  ELSE IF parse(bufname).expr \in DOMAIN handlers
  THEN MatchResult("ok", parse(bufname), parse(bufname).expr,
                   handlers[parse(bufname).expr])
  ELSE MatchResult("NoHandler", parse(bufname), <<>>, None)

\* a variant of lines 44-59 without the test of the scheme
MatchParsedAnyScheme(parsed) ==
  IF \E path \in DOMAIN handlers : PathMatches(path, parsed.expr)
  THEN LET path == CHOOSE q \in DOMAIN handlers : PathMatches(q, parsed.expr)
       IN MatchResult("ok", parsed, path, handlers[path])
  ELSE IF defaultHandler # None
  THEN MatchResult("ok", parsed, fallbackPath(parsed), defaultHandler)
  ELSE MatchResult("NoHandler", parsed, <<>>, None)

\* lines 44-59, for the parsed name
MatchParsed(parsed) ==
  IF parsed.scheme # Scheme
  THEN MatchResult("InvalidScheme", parsed, <<>>, None)
  ELSE IF \E path \in DOMAIN handlers : PathMatches(path, parsed.expr)
  THEN LET path == CHOOSE q \in DOMAIN handlers : PathMatches(q, parsed.expr)
       IN MatchResult("ok", parsed, path, handlers[path])
  ELSE IF defaultHandler # None
  THEN MatchResult("ok", parsed, fallbackPath(parsed), defaultHandler)
  ELSE MatchResult("NoHandler", parsed, <<>>, None)

Match(bufname) ==
  IF ~parseOk(bufname) THEN MatchResult("Malformed", NoBufname, <<>>, None)
  ELSE MatchParsed(parse(bufname))

(***************************************************************************)
(* The host: buffers, windows, and the functions the opener calls.         *)
(***************************************************************************)
NoBuf ==
  [exists |-> FALSE, name |-> <<>>, loaded |-> FALSE, marker |-> Absent,
   swapfile |-> TRUE, modified |-> FALSE, modifiable |-> TRUE, readonly |-> FALSE,
   buftype |-> "", writeCmds |-> <<>>, content |-> "empty",
   phase |-> "Unloaded", loader |-> None, entered |-> FALSE]

NewBuf(name) == [NoBuf EXCEPT !.exists = TRUE, !.name = name]

\* the (path, params, fragment) arguments of a call, NoArgs when it has none
Args(path, params, fragment) == [path |-> path, params |-> params, fragment |-> fragment]

NoArgs == Args(<<>>, Absent, Absent)

\* no user command is defined
NoCommands == [n \in {} |-> None]

NoPending ==
  [kind |-> "none", buf |-> 0, afile |-> <<>>, path |-> <<>>, handler |-> None,
   op |-> "none", args |-> NoArgs, ret |-> Absent, idx |-> 0, phase0 |-> "Unloaded",
   first |-> FALSE]

\* op: the operation; buf, name: the view and name it is about; result: "ok",
\* "pending" (a handler callback is suspended) or the error; handler: the handler
\* resolved; cbs: the handler callbacks invoked; args, ret: the arguments and the
\* returned name of open, preload and bufname; host: the host command issued;
\* fault: an error reached the caller
Last(op, buf, name, result, handler, cbs, args, ret, host) ==
  [op |-> op, buf |-> buf, name |-> name, result |-> result, handler |-> handler,
   cbs |-> cbs, args |-> args, ret |-> ret, host |-> host,
   fault |-> result \notin {"ok", "pending"}, act |-> None]

\* the buffer whose full name is name, 0 when there is none
BufNamed(b, name) ==
  IF \E v \in BufNrs : b[v].exists /\ b[v].name = name
  THEN CHOOSE v \in BufNrs : b[v].exists /\ b[v].name = name
  ELSE 0

\* fn.bufnr(name): the full name first, else the only buffer the name is a part of
bufnr(name) ==
  LET partial == {v \in BufNrs : bufs[v].exists /\ StartsWith(bufs[v].name, name)} IN
  IF BufNamed(bufs, name) # 0 THEN BufNamed(bufs, name)
  ELSE IF Cardinality(partial) = 1 THEN CHOOSE v \in partial : TRUE
  ELSE -1

\* fn.bufwinnr(nr): the first window that displays the buffer, -1 when there is none
bufwinnr(nr) ==
  LET ws == {w \in 1..Len(wins) : nr >= 1 /\ wins[w] = nr} IN
  IF ws = {} THEN -1 ELSE CHOOSE w \in ws : \A x \in ws : w <= x

\* the host's current buffer: the one an autocommand runs for, else the focused window's
CurBuf == IF pending.kind # "none" THEN pending.buf ELSE wins[curw]

\* a variant of the pattern that matches no name
PatternMatchesNone(afile) == FALSE

\* the BufReadCmd pattern of dispatch: <scheme>://*
PatternMatches(afile) == StartsWith(afile, Scheme \o SchemeSep)

(***************************************************************************)
(* opener.ts                                                               *)
(***************************************************************************)
\* getOpenCommand with the split commands of the two orientations exchanged
getOpenCommandTransposed(split) ==
  CASE split \in {"undefined", "", "none"} -> <<"edit">>
    [] split = "split-top" -> <<"topleft", "vnew">>
    [] split = "split-above" -> <<"aboveleft", "vnew">>
    [] split = "split-below" -> <<"belowright", "vnew">>
    [] split = "split-bottom" -> <<"botright", "vnew">>
    [] split = "split-leftmost" -> <<"topleft", "new">>
    [] split = "split-left" -> <<"aboveleft", "new">>
    [] split = "split-right" -> <<"belowright", "new">>
    [] split = "split-rightmost" -> <<"botright", "new">>
    [] split = "split-tab" -> <<"tabnew">>

getOpenCommand(split) ==
  CASE split \in {"undefined", "", "none"} -> <<"edit">>
    [] split = "split-top" -> <<"topleft", "new">>
    [] split = "split-above" -> <<"aboveleft", "new">>
    [] split = "split-below" -> <<"belowright", "new">>
    [] split = "split-bottom" -> <<"botright", "new">>
    [] split = "split-leftmost" -> <<"topleft", "vnew">>
    [] split = "split-left" -> <<"aboveleft", "vnew">>
    [] split = "split-right" -> <<"belowright", "vnew">>
    [] split = "split-rightmost" -> <<"botright", "vnew">>
    [] split = "split-tab" -> <<"tabnew">>

\* open(): the window to focus, -1 when the open command is to be run
openWinid(bufname, opener) ==
  IF opener.reuse THEN bufwinnr(bufnr(bufname)) ELSE -1

(***************************************************************************)
(* Router.bufname                                                          *)
(***************************************************************************)
\* a variant of line 147 without the test
bufnameOkAlways(path) == TRUE

\* line 147: this.#handlers.has(path) || this.#defaultHandler
bufnameOk(path) == path \in DOMAIN handlers \/ defaultHandler # None

\* a variant of lines 150-155 that forgets the fragment
bufnameNoFragment(path, params, fragment) == format(Bufname(Scheme, path, params, Absent))

\* lines 150-155
bufname(path, params, fragment) == format(Bufname(Scheme, path, params, fragment))

(***************************************************************************)
(* The state after new Router(Scheme), in a host with one window.          *)
(***************************************************************************)
Init ==
  /\ handlers = [p \in {} |-> None]
  /\ defaultHandler = None
  /\ dispatcher = {}
  /\ readCmds = <<>>
  /\ bufs = [v \in BufNrs |-> NoBuf]
  /\ nbufs = 0
  /\ wins = <<0>>
  /\ curw = 1
  /\ pending = NoPending
  /\ commands = NoCommands
  /\ last = Last("init", 0, <<>>, "ok", None, <<>>, NoArgs, Absent, <<>>)

Idle == pending.kind = "none"

(***************************************************************************)
(* Router.handle, Router.handleFallback, Router.dispatch                   *)
(***************************************************************************)
\* a handle that leaves a path that is registered already as it is
HandleKeepFirst(path, h) ==
  /\ handlers' = [q \in DOMAIN handlers \cup {path} |->
                    IF q \in DOMAIN handlers THEN handlers[q] ELSE h]
  /\ last' = Last("handle", 0, path, "ok", h, <<>>, NoArgs, Absent, <<>>)
  /\ UNCHANGED <<commands, defaultHandler, dispatcher, readCmds, bufs, nbufs, wins, curw, pending>>

Handle(path, h) ==
  /\ handlers' = [q \in DOMAIN handlers \cup {path} |->
                    IF q = path THEN h ELSE handlers[q]]
  /\ last' = Last("handle", 0, path, "ok", h, <<>>, NoArgs, Absent, <<>>)
  /\ UNCHANGED <<commands, defaultHandler, dispatcher, readCmds, bufs, nbufs, wins, curw, pending>>

HandleFallback(h) ==
  /\ defaultHandler' = h
  /\ last' = Last("handleFallback", 0, <<>>, "ok", h, <<>>, NoArgs, Absent, <<>>)
  /\ UNCHANGED <<commands, handlers, dispatcher, readCmds, bufs, nbufs, wins, curw, pending>>

\* a dispatch whose read signal names the method of the default prefix
DispatchDefaultSignal(prefix) ==
  /\ Idle
  /\ readCmds' = <<"router">>
  /\ dispatcher' = dispatcher \cup {prefix}
  /\ last' = Last("dispatch", 0, <<>>, "ok", None, <<>>, NoArgs, Absent, <<>>)
  /\ UNCHANGED <<commands, handlers, defaultHandler, bufs, nbufs, wins, curw, pending>>

\* augroup; autocmd! *; autocmd BufReadCmd <scheme>://* ...; the override methods
Dispatch(prefix) ==
  /\ Idle
  /\ readCmds' = <<prefix>>
  /\ dispatcher' = dispatcher \cup {prefix}
  /\ last' = Last("dispatch", 0, <<>>, "ok", None, <<>>, NoArgs, Absent, <<>>)
  /\ UNCHANGED <<commands, handlers, defaultHandler, bufs, nbufs, wins, curw, pending>>

(***************************************************************************)
(* The read signal: the host runs the BufReadCmd autocommand for buffer v  *)
(* of table b, which requests <prefix>:internal:load [bufnr(), bufname()], *)
(* that is Router.#load up to the call of handler.load.                    *)
(***************************************************************************)
\* Router.#load up to the call of handler.load, m being the result of #match
\* the firstTime of the context every load is said to take
firstTimeAlways(buf) == TRUE

\* LoadContext.firstTime: true when no load of the handler has run for the view yet
firstTime(buf) == ~buf.entered

LoadEnter(b, v, op, args, ret, host, afile, m) ==
  IF m.err # "ok"
  THEN /\ bufs' = [b EXCEPT ![v].loaded = TRUE, ![v].phase = "LoadFailed"]
       /\ pending' = NoPending
       /\ last' = Last(op, v, afile, m.err, None, <<>>, args, Absent, host)
  ELSE /\ bufs' = [b EXCEPT ![v].loaded = TRUE, ![v].phase = "Loading",
                            ![v].entered = TRUE]
       /\ pending' = [kind |-> "load", buf |-> v, afile |-> afile, path |-> m.path,
                      handler |-> m.handler, op |-> op, args |-> args, ret |-> ret,
                      idx |-> 0,
                      phase0 |-> b[v].phase, first |-> firstTime(b[v])]
       /\ last' = Last(op, v, afile, "pending", m.handler,
                       <<<<m.handler, "load">>>>, args, Absent, host)

LoadRequest(b, v, op, args, ret, host, afile, m) ==
  IF readCmds = <<>> \/ ~PatternMatches(afile)
  THEN /\ bufs' = [b EXCEPT ![v].loaded = TRUE]
       /\ pending' = NoPending
       /\ last' = Last(op, v, afile, "ok", None, <<>>, args, ret, host)
  ELSE IF readCmds[1] \notin dispatcher
  THEN /\ bufs' = [b EXCEPT ![v].loaded = TRUE]
       /\ pending' = NoPending
       /\ last' = Last(op, v, afile, "NoMethod", None, <<>>, args, Absent, host)
  ELSE LoadEnter(b, v, op, args, ret, host, afile, m)

ReadSignal(b, v, op, args, ret, host) ==
  LoadRequest(b, v, op, args, ret, host, b[v].name, Match(b[v].name))

\* a variant of lines 77-88 whose else branch does not set readonly
LoadSettingsNoReadonly(buf, path, h, afile) ==
  LET b1 == [buf EXCEPT !.marker = Some(path), !.swapfile = FALSE, !.modified = FALSE]
  IN IF HasSave(h)
     THEN [b1 EXCEPT !.writeCmds = Append(@, [prefix |-> readCmds[1], abuf |-> pending.buf,
                                              afile |-> afile]),
                     !.buftype = "acwrite"]
     ELSE [b1 EXCEPT !.modifiable = FALSE]

\* Router.#load after handler.load has returned: the batch of lines 77-88
LoadSettings(buf, path, h, afile) ==
  LET b1 == [buf EXCEPT !.marker = Some(path), !.swapfile = FALSE, !.modified = FALSE]
  IN IF HasSave(h)
     THEN [b1 EXCEPT !.writeCmds = Append(@, [prefix |-> readCmds[1], abuf |-> pending.buf,
                                              afile |-> afile]),
                     !.buftype = "acwrite"]
     ELSE [b1 EXCEPT !.modifiable = FALSE, !.readonly = TRUE]

\* handler.load returns (ok) or throws
\* the settings of a load decided by the handler the registry resolves when the
\* callback returns
LoadReturnResolvesAgain(ok) ==
  /\ pending.kind = "load"
  /\ bufs' = IF ok
             THEN [bufs EXCEPT ![pending.buf] =
                     [LoadSettings(bufs[pending.buf], pending.path,
                                   Match(pending.afile).handler, pending.afile) EXCEPT
                        !.content = "loaded", !.loader = pending.handler,
                        !.phase = IF HasSave(Match(pending.afile).handler)
                                  THEN "LoadedWritable" ELSE "LoadedReadOnly"]]
             ELSE [bufs EXCEPT ![pending.buf].phase = "LoadFailed"]
  /\ last' = Last("loadret", pending.buf, pending.afile,
                  IF ok THEN "ok" ELSE "HandlerThrew", pending.handler, <<>>,
                  pending.args, IF ok THEN pending.ret ELSE Absent, <<>>)
  /\ pending' = NoPending
  /\ UNCHANGED <<commands, handlers, defaultHandler, dispatcher, readCmds, nbufs, wins,
                 curw>>

\* the settings of a load applied whether the callback returned or threw
LoadReturnSetsAnyway(ok) ==
  /\ pending.kind = "load"
  /\ bufs' = [bufs EXCEPT ![pending.buf] =
                [LoadSettings(bufs[pending.buf], pending.path, pending.handler,
                              pending.afile) EXCEPT
                   !.content = IF ok THEN "loaded" ELSE @,
                   !.loader = IF ok THEN pending.handler ELSE @,
                   !.phase = IF ~ok THEN "LoadFailed"
                             ELSE IF HasSave(pending.handler) THEN "LoadedWritable"
                             ELSE "LoadedReadOnly"]]
  /\ last' = Last("loadret", pending.buf, pending.afile,
                  IF ok THEN "ok" ELSE "HandlerThrew", pending.handler, <<>>,
                  pending.args, IF ok THEN pending.ret ELSE Absent, <<>>)
  /\ pending' = NoPending
  /\ UNCHANGED <<commands, handlers, defaultHandler, dispatcher, readCmds, nbufs, wins,
                 curw>>

LoadReturn(ok) ==
  /\ pending.kind = "load"
  /\ LET v == pending.buf
         h == pending.handler
     IN IF ok
        THEN /\ bufs' = [bufs EXCEPT ![v] =
                  [LoadSettings(bufs[v], pending.path, h, pending.afile) EXCEPT
                     !.content = "loaded", !.loader = h,
                     !.phase = IF HasSave(h) THEN "LoadedWritable" ELSE "LoadedReadOnly"]]
             /\ last' = Last("loadret", v, pending.afile, "ok", h, <<>>, pending.args,
                             pending.ret, <<>>)
        ELSE /\ bufs' = [bufs EXCEPT ![v].phase = "LoadFailed"]
             /\ last' = Last("loadret", v, pending.afile, "HandlerThrew", h, <<>>,
                             pending.args, Absent, <<>>)
  /\ pending' = NoPending
  /\ UNCHANGED <<commands, handlers, defaultHandler, dispatcher, readCmds, nbufs, wins, curw>>

(***************************************************************************)
(* Router.open and Router.preload                                          *)
(***************************************************************************)
\* the host's :edit / :new / :vnew / :tabnew <name>, then the read signal if the
\* buffer has no content yet
EditCmd(cmd, name, op, args, ret) ==
  LET old == BufNamed(bufs, name)
      v == IF old # 0 THEN old ELSE nbufs + 1
      b == IF old # 0 THEN bufs ELSE [bufs EXCEPT ![v] = NewBuf(name)]
      split == cmd # <<"edit">>
  IN /\ old # 0 \/ nbufs < MaxBuf
     /\ split => Len(wins) < MaxWin
     /\ nbufs' = IF old # 0 THEN nbufs ELSE nbufs + 1
     /\ wins' = IF split THEN Append(wins, v) ELSE [wins EXCEPT ![curw] = v]
     /\ curw' = IF split THEN Len(wins) + 1 ELSE curw
     /\ IF b[v].loaded
        THEN /\ bufs' = b
             /\ pending' = NoPending
             /\ last' = Last(op, v, name, "ok", None, <<>>, args, ret, cmd)
        ELSE ReadSignal(b, v, op, args, ret, cmd)

Open(path, params, fragment, opener) ==
  /\ Idle
  /\ UNCHANGED <<commands, handlers, defaultHandler, dispatcher, readCmds>>
  /\ IF ~bufnameOk(path)
     THEN /\ last' = Last("open", 0, <<>>, "NoHandler", None, <<>>,
                          Args(path, params, fragment), Absent, <<>>)
          /\ UNCHANGED <<commands, bufs, nbufs, wins, curw, pending>>
     ELSE LET name == bufname(path, params, fragment)
              winid == openWinid(name, opener)
          IN IF winid < 0
             THEN EditCmd(getOpenCommand(opener.split), name, "open",
                          Args(path, params, fragment), Some(name))
             ELSE /\ curw' = winid
                  /\ last' = Last("open", wins[winid], name, "ok", None, <<>>,
                                  Args(path, params, fragment), Some(name),
                                  <<"wincmd", "w">>)
                  /\ UNCHANGED <<commands, bufs, nbufs, wins, pending>>

\* a variant of preload() that edits the name in the current window
BufAddLoadAsEdit(name, op, args, ret) ==
  LET old == BufNamed(bufs, name)
      v == IF old # 0 THEN old ELSE nbufs + 1
      b == IF old # 0 THEN bufs ELSE [bufs EXCEPT ![v] = NewBuf(name)]
  IN /\ old # 0 \/ nbufs < MaxBuf
     /\ nbufs' = IF old # 0 THEN nbufs ELSE nbufs + 1
     /\ wins' = [wins EXCEPT ![curw] = v]
     /\ curw' = curw
     /\ IF b[v].loaded
        THEN /\ bufs' = b
             /\ pending' = NoPending
             /\ last' = Last(op, v, name, "ok", None, <<>>, args, ret, <<"edit">>)
        ELSE ReadSignal(b, v, op, args, ret, <<"edit">>)

\* preload(): bufload(bufadd(name)), then the read signal if the buffer has no
\* content yet
BufAddLoad(name, op, args, ret) ==
  LET old == BufNamed(bufs, name)
      v == IF old # 0 THEN old ELSE nbufs + 1
      b == IF old # 0 THEN bufs ELSE [bufs EXCEPT ![v] = NewBuf(name)]
  IN /\ old # 0 \/ nbufs < MaxBuf
     /\ nbufs' = IF old # 0 THEN nbufs ELSE nbufs + 1
     /\ UNCHANGED <<commands, wins, curw>>
     /\ IF b[v].loaded
        THEN /\ bufs' = b
             /\ pending' = NoPending
             /\ last' = Last(op, v, name, "ok", None, <<>>, args, ret,
                             <<"bufadd", "bufload">>)
        ELSE ReadSignal(b, v, op, args, ret, <<"bufadd", "bufload">>)

Preload(path, params, fragment) ==
  /\ Idle
  /\ UNCHANGED <<commands, handlers, defaultHandler, dispatcher, readCmds>>
  /\ IF ~bufnameOk(path)
     THEN /\ last' = Last("preload", 0, <<>>, "NoHandler", None, <<>>,
                          Args(path, params, fragment), Absent, <<>>)
          /\ UNCHANGED <<commands, bufs, nbufs, wins, curw, pending>>
     ELSE BufAddLoad(bufname(path, params, fragment), "preload",
                     Args(path, params, fragment),
                     Some(bufname(path, params, fragment)))

\* Router.bufname called by the plugin
CreateName(path, params, fragment) ==
  /\ last' = IF bufnameOk(path)
             THEN Last("bufname", 0, <<>>, "ok", None, <<>>,
                       Args(path, params, fragment),
                       Some(bufname(path, params, fragment)), <<>>)
             ELSE Last("bufname", 0, <<>>, "NoHandler", None, <<>>,
                       Args(path, params, fragment), Absent, <<>>)
  /\ UNCHANGED <<commands, handlers, defaultHandler, dispatcher, readCmds, bufs, nbufs, wins, curw,
                 pending>>

(***************************************************************************)
(* Host events: the user edits a name, reloads, modifies and writes a view *)
(***************************************************************************)
\* names a user can type: the names open can build
UserNames == { bufname(p, a[1], a[2]) : p \in Paths, a \in OpenArgs }

\* :edit <name> typed by the user
HostEdit(name) ==
  /\ Idle
  /\ EditCmd(<<"edit">>, name, "hostedit", NoArgs, Absent)
  /\ UNCHANGED <<commands, handlers, defaultHandler, dispatcher, readCmds>>

\* :edit! on a view that has content: the read signal again
Reload(v) ==
  /\ Idle
  /\ bufs[v].exists /\ bufs[v].loaded
  /\ Len(bufs[v].writeCmds) < MaxWriteCmds
  /\ ReadSignal(bufs, v, "reload", NoArgs, Absent, <<"edit!">>)
  /\ UNCHANGED <<commands, handlers, defaultHandler, dispatcher, readCmds, nbufs, wins, curw>>

\* :file <name> on the current view: the view takes the name, and an unlisted
\* buffer without content is created to hold the old one.  No autocommand of the
\* Router runs; the variables, options and autocommands of the view stay.
Rename(v, name) ==
  /\ Idle
  /\ v = wins[curw] /\ v \in BufNrs /\ bufs[v].exists
  /\ BufNamed(bufs, name) = 0
  /\ nbufs < MaxBuf
  /\ bufs' = [bufs EXCEPT ![v].name = name, ![nbufs + 1] = NewBuf(bufs[v].name)]
  /\ nbufs' = nbufs + 1
  /\ last' = Last("rename", v, name, "ok", None, <<>>, NoArgs, Absent, <<"file">>)
  /\ UNCHANGED <<commands, handlers, defaultHandler, dispatcher, readCmds, wins, curw, pending>>

\* the user changes the text of a view
UserModify(v) ==
  /\ Idle
  /\ bufs[v].exists /\ bufs[v].loaded /\ bufs[v].modifiable
  /\ bufs' = [bufs EXCEPT ![v].modified = TRUE, ![v].content = "edited"]
  /\ last' = Last("modify", v, bufs[v].name, "ok", None, <<>>, NoArgs, Absent, <<>>)
  /\ UNCHANGED <<commands, handlers, defaultHandler, dispatcher, readCmds, nbufs, wins, curw,
                 pending>>

(***************************************************************************)
(* The write signal: the host runs the BufWriteCmd autocommands of buffer  *)
(* v from the idx-th on; each requests <prefix>:internal:save [abuf,afile] *)
(* with the values captured at load time, that is Router.#save up to the   *)
(* call of handler.save.                                                   *)
(***************************************************************************)
SaveRequest(v, idx, op, cmd, m) ==
  IF cmd.prefix \notin dispatcher
  THEN /\ last' = Last(op, v, cmd.afile, "NoMethod", None, <<>>, NoArgs, Absent, <<>>)
       /\ pending' = NoPending
       /\ UNCHANGED bufs
  ELSE IF m.err # "ok"
  THEN /\ last' = Last(op, v, cmd.afile, m.err, None, <<>>, NoArgs, Absent, <<>>)
       /\ pending' = NoPending
       /\ UNCHANGED bufs
  ELSE IF ~HasSave(m.handler)
  THEN /\ last' = Last(op, v, cmd.afile, "NotWritable", m.handler, <<>>, NoArgs,
                       Absent, <<>>)
       /\ pending' = NoPending
       /\ UNCHANGED bufs
  ELSE /\ last' = Last(op, v, cmd.afile, "pending", m.handler,
                       <<<<m.handler, "save">>>>, NoArgs, Absent, <<>>)
       /\ pending' = [kind |-> "save", buf |-> cmd.abuf, afile |-> cmd.afile,
                      path |-> m.path, handler |-> m.handler, op |-> op,
                      args |-> NoArgs, ret |-> Absent, idx |-> idx,
                      phase0 |-> bufs[v].phase, first |-> FALSE]
       /\ bufs' = [bufs EXCEPT ![v].phase = "Saving"]

\* the write signal served by the handler kept from the view's load
WriteSignalOfLoader(v, idx, op) ==
  SaveRequest(v, idx, op, bufs[v].writeCmds[idx],
              MatchResult("ok", parse(bufs[v].writeCmds[idx].afile),
                          parse(bufs[v].writeCmds[idx].afile).expr, bufs[v].loader))

WriteSignal(v, idx, op) ==
  SaveRequest(v, idx, op, bufs[v].writeCmds[idx], Match(bufs[v].writeCmds[idx].afile))

\* :write on a view
Write(v) ==
  /\ Idle
  /\ bufs[v].exists /\ bufs[v].loaded
  /\ UNCHANGED <<commands, handlers, defaultHandler, dispatcher, readCmds, nbufs, wins, curw>>
  /\ IF bufs[v].writeCmds = <<>>
     THEN /\ last' = Last("write", v, bufs[v].name, "NoAutocmd", None, <<>>, NoArgs,
                          Absent, <<>>)
          /\ UNCHANGED <<commands, bufs, pending>>
     ELSE WriteSignal(v, 1, "write")

\* a variant of line 107 that leaves the flag alone
SaveSettingsNone(buf) == buf

\* line 107: option.modified.setLocal(denops, false)
SaveSettings(buf) == [buf EXCEPT !.modified = FALSE]

\* handler.save returns (ok) or throws.  After a return the host goes on to the next
\* BufWriteCmd autocommand of the view, if there is one; an error ends the write.
SaveReturn(ok) ==
  /\ pending.kind = "save"
  /\ UNCHANGED <<commands, handlers, defaultHandler, dispatcher, readCmds, nbufs, wins, curw>>
  /\ LET v == pending.buf
         h == pending.handler
     IN IF ok
        THEN /\ bufs' = [bufs EXCEPT ![v].phase = pending.phase0,
                                     ![CurBuf] = SaveSettings(@)]
             /\ last' = Last("saveret", v, pending.afile, "ok", h, <<>>, NoArgs,
                             Absent, <<>>)
             /\ pending' = IF pending.idx < Len(bufs[v].writeCmds)
                           THEN [NoPending EXCEPT !.kind = "next", !.buf = v,
                                                  !.idx = pending.idx + 1]
                           ELSE NoPending
        ELSE /\ bufs' = [bufs EXCEPT ![v].phase = pending.phase0]
             /\ last' = Last("saveret", v, pending.afile, "HandlerThrew", h, <<>>,
                             NoArgs, Absent, <<>>)
             /\ pending' = NoPending

\* the next BufWriteCmd autocommand of the view being written
WriteNext ==
  /\ pending.kind = "next"
  /\ WriteSignal(pending.buf, pending.idx, "write")
  /\ UNCHANGED <<commands, handlers, defaultHandler, dispatcher, readCmds, nbufs, wins, curw>>

(***************************************************************************)
(* Router.action                                                           *)
(***************************************************************************)
\* a variant of line 126 that knows only the views whose load has succeeded
hostBufnameLoadedOnly(buf) ==
  IF buf \in BufNrs /\ bufs[buf].exists
     /\ bufs[buf].phase \in {"LoadedWritable", "LoadedReadOnly"}
  THEN bufs[buf].name ELSE <<>>

\* fn.bufname(buf): the name of the buffer, empty when there is no such buffer
hostBufname(buf) == IF buf \in BufNrs /\ bufs[buf].exists THEN bufs[buf].name ELSE <<>>

\* a variant of line 127 that finds every action on every handler
HasActionAlways(h, actName) == TRUE

\* line 127: (handler.actions || {})[actName]
HasAction(h, actName) == actName \in ActionsOf(h)

\* what a call of Router.action did: act is the action name asked for
LastAction(buf, name, result, handler, cbs, actName) ==
  [Last("action", buf, name, result, handler, cbs, NoArgs, Absent, <<>>)
     EXCEPT !.act = actName]

\* lines 127-131, for the resolved handler
ActionMatched(buf, actName, name, m) ==
  /\ last' = IF m.err # "ok"
             THEN LastAction(buf, name, m.err, None, <<>>, actName)
             ELSE IF ~HasAction(m.handler, actName)
             THEN LastAction(buf, name, "NoSuchAction", m.handler, <<>>, actName)
             ELSE LastAction(buf, name, "ok", m.handler, <<<<m.handler, actName>>>>,
                             actName)
  /\ UNCHANGED <<commands, handlers, defaultHandler, dispatcher, readCmds, bufs, nbufs, wins, curw,
                 pending>>

Action(buf, actName) ==
  ActionMatched(buf, actName, hostBufname(buf), Match(hostBufname(buf)))

(***************************************************************************)
(* The dispatcher entries <prefix>:internal:load and <prefix>:internal:save *)
(* requested by a script of the host, for the current buffer and any name.  *)
(***************************************************************************)
RequestLoad(prefix, v, file) ==
  /\ Idle
  /\ v = wins[curw] /\ v \in BufNrs /\ bufs[v].loaded
  /\ prefix \in dispatcher
  /\ Len(bufs[v].writeCmds) < MaxWriteCmds
  /\ LoadEnter(bufs, v, "reqload", NoArgs, Absent, <<>>, file, Match(file))
  /\ UNCHANGED <<commands, handlers, defaultHandler, dispatcher, readCmds, nbufs, wins, curw>>

\* no autocommand of the view follows the request: its index is that of the last one
RequestSave(prefix, v, file) ==
  /\ Idle
  /\ v = wins[curw] /\ v \in BufNrs /\ bufs[v].loaded
  /\ prefix \in dispatcher
  /\ SaveRequest(v, Len(bufs[v].writeCmds), "reqsave",
                 [prefix |-> prefix, abuf |-> v, afile |-> file], Match(file))
  /\ UNCHANGED <<commands, handlers, defaultHandler, dispatcher, readCmds, nbufs, wins, curw>>

(***************************************************************************)
(* The methods that dispatch adds: each checks its arguments, which come   *)
(* untyped from the host, and then calls the Router.                       *)
(***************************************************************************)
\* an untyped value: its type t and, by type, its value v -- the characters of a
\* string (the word itself for a split), the entries <<key, value>> of the record
\* of params, the members split and reuse of the record of an opener
Undefined == [t |-> "undefined", v |-> 0]
Str(s) == [t |-> "string", v |-> s]
Num(n) == [t |-> "number", v |-> n]
Bool(b) == [t |-> "boolean", v |-> b]
Rec(r) == [t |-> "record", v |-> r]

\* is.String, is.Number, is.Boolean, is.Record, as.Optional(is.String)
isString(u) == u.t = "string"
isNumber(u) == u.t = "number"
isBoolean(u) == u.t = "boolean"
isRecord(u) == u.t = "record"
isOptionalString(u) == u.t = "undefined" \/ isString(u)

\* as.Optional(is.UnionOf([is.String, is.ArrayOf(is.String)]))
isParamValue(u) ==
  \/ u.t \in {"undefined", "string"}
  \/ u.t = "array" /\ \A i \in 1..Len(u.v) : isString(u.v[i])

\* as.Optional(is.RecordOf(...))
isOptionalParams(u) ==
  \/ u.t = "undefined"
  \/ isRecord(u) /\ \A i \in 1..Len(u.v) : isParamValue(u.v[i][2])

isSplit(u) == isString(u) /\ u.v \in Splits \ {"undefined"}

\* an is.ObjectOf that takes any value as reuse
isBufferOpenerAnyReuse(u) ==
  /\ isRecord(u)
  /\ u.v.split.t = "undefined" \/ isSplit(u.v.split)

isBufferOpener(u) ==
  /\ isRecord(u)
  /\ u.v.split.t = "undefined" \/ isSplit(u.v.split)
  /\ u.v.reuse.t = "undefined" \/ isBoolean(u.v.reuse)

isOptionalOpener(u) == u.t = "undefined" \/ isBufferOpener(u)

\* the checked values, as the Router takes them
paramsOf(u) ==
  IF u.t = "undefined" THEN Absent
  ELSE Some([i \in 1..Len(u.v) |-> <<u.v[i][1], u.v[i][2].v>>])

optionalOf(u) == IF u.t = "undefined" THEN Absent ELSE Some(u.v)

\* what a condition makes of a value
truthy(u) ==
  CASE u.t = "boolean" -> u.v
    [] u.t = "string" -> u.v # <<>>
    [] u.t = "number" -> u.v # 0
    [] u.t = "record" -> TRUE
    [] OTHER -> FALSE

openerOf(u) ==
  IF u.t = "undefined" THEN [reuse |-> FALSE, split |-> "undefined"]
  ELSE [reuse |-> truthy(u.v.reuse),
        split |-> IF u.v.split.t = "undefined" THEN "undefined" ELSE u.v.split.v]

\* ensure throws: the request fails before anything of the Router has run
Rejected(method) ==
  /\ last' = Last("request", 0, <<>>, "InvalidArgument", None, <<>>, NoArgs, Absent,
                  <<method>>)
  /\ UNCHANGED <<commands, handlers, defaultHandler, dispatcher, readCmds, bufs, nbufs, wins, curw,
                 pending>>

DispatchedOpen(prefix, uPath, uParams, uFragment, uOpener) ==
  /\ prefix \in dispatcher
  /\ IF /\ isString(uPath)
        /\ isOptionalParams(uParams)
        /\ isOptionalString(uFragment)
        /\ isOptionalOpener(uOpener)
     THEN Open(uPath.v, paramsOf(uParams), optionalOf(uFragment), openerOf(uOpener))
     ELSE Rejected("open")

DispatchedPreload(prefix, uPath, uParams, uFragment) ==
  /\ prefix \in dispatcher
  /\ IF /\ isString(uPath)
        /\ isOptionalParams(uParams)
        /\ isOptionalString(uFragment)
     THEN Preload(uPath.v, paramsOf(uParams), optionalOf(uFragment))
     ELSE Rejected("preload")

DispatchedLoad(prefix, uBuf, uFile) ==
  IF isNumber(uBuf) /\ isString(uFile)
  THEN RequestLoad(prefix, uBuf.v, uFile.v)
  ELSE prefix \in dispatcher /\ Rejected("internal:load")

DispatchedSave(prefix, uBuf, uFile) ==
  IF isNumber(uBuf) /\ isString(uFile)
  THEN RequestSave(prefix, uBuf.v, uFile.v)
  ELSE prefix \in dispatcher /\ Rejected("internal:save")

DispatchedAction(prefix, uBuf, uAct, uParams) ==
  /\ prefix \in dispatcher
  /\ IF isNumber(uBuf) /\ isString(uAct) /\ isRecord(uParams)
     THEN Action(uBuf.v, uAct.v)
     ELSE Rejected("action")

(***************************************************************************)
(* Spec: registration, naming, opening and the first load of views.        *)
(***************************************************************************)
\* the handlers registered under paths, and the one set as the fallback
PathHandlers == {"hRO", "hRW"}

FallbackHandler == "hAlt"

PlainOpener == [reuse |-> FALSE, split |-> ""]

Next ==
  \/ \E p \in Paths, h \in PathHandlers : Handle(p, h)
  \/ HandleFallback(FallbackHandler)
  \/ \E x \in Prefixes : Dispatch(x)
  \/ \E p \in Paths : Open(p, ParamsKV, FragmentF, PlainOpener)
  \/ \E p \in Paths : Preload(p, ParamsKV, FragmentF)
  \/ \E p \in Paths, a \in NameArgs : CreateName(p, a[1], a[2])
  \/ \E p \in Paths : HostEdit(bufname(p, ParamsKV, FragmentF))
  \/ \E ok \in BOOLEAN : LoadReturn(ok)

Spec == Init /\ [][Next]_vars

(***************************************************************************)
(* SpecLife: the whole life of the views of one path: loads, reloads,      *)
(* edits, writes and actions, while the plugin keeps registering handlers. *)
(***************************************************************************)
LifePath == <<"a">>

LifeName == bufname(LifePath, Absent, Absent)

NextLife ==
  \/ \E h \in Handlers : Handle(LifePath, h)
  \/ \E h \in Handlers : HandleFallback(h)
  \/ \E x \in Prefixes : Dispatch(x)
  \/ Open(LifePath, Absent, Absent, PlainOpener)
  \/ HostEdit(LifeName)
  \/ \E v \in BufNrs : Reload(v)
  \/ \E v \in BufNrs : UserModify(v)
  \/ \E v \in BufNrs : Write(v)
  \/ \E ok \in BOOLEAN : LoadReturn(ok)
  \/ \E ok \in BOOLEAN : SaveReturn(ok)
  \/ WriteNext
  \/ \E v \in BufNrs, a \in ActionNames : Action(v, a)

SpecLife == Init /\ [][NextLife]_vars

(***************************************************************************)
(* Spec: operations run to their end.  The reads and writes of the         *)
(* lifecycle, under handlers whose callbacks terminate: a callback that    *)
(* was entered returns or throws, and the host goes on to the next write   *)
(* intercept of a view.                                                    *)
(***************************************************************************)
NextFinish ==
  \/ \E h \in {"hRO", "hRW"} : Handle(LifePath, h)
  \/ \E x \in Prefixes : Dispatch(x)
  \/ HostEdit(LifeName)
  \/ \E v \in BufNrs : Reload(v)
  \/ \E v \in BufNrs : UserModify(v)
  \/ \E v \in BufNrs : Write(v)
  \/ \E ok \in BOOLEAN : LoadReturn(ok)
  \/ \E ok \in BOOLEAN : SaveReturn(ok)
  \/ WriteNext

SpecFinish ==
  /\ Init /\ [][NextFinish]_vars
  /\ WF_vars(\E ok \in BOOLEAN : LoadReturn(ok))
  /\ WF_vars(\E ok \in BOOLEAN : SaveReturn(ok))
  /\ WF_vars(WriteNext)

(***************************************************************************)
(* SpecScheme: names of other schemes, as buffers of the host and as the   *)
(* file of a request.  "t://a" is of scheme t; "s://t://a" matches the     *)
(* BufReadCmd pattern s://* but its scheme, all that precedes the last     *)
(* "://", is not s.                                                        *)
(***************************************************************************)
ForeignName == <<"t", ":", "/", "/", "a">>

NestedName == <<"s", ":", "/", "/", "t", ":", "/", "/", "a">>

SchemeNames == {LifeName, ForeignName, NestedName}

ForeignNames == {ForeignName, NestedName}

NextScheme ==
  \/ \E h \in Handlers : Handle(LifePath, h)
  \/ \E h \in Handlers : HandleFallback(h)
  \/ \E x \in Prefixes : Dispatch(x)
  \/ \E n \in SchemeNames : HostEdit(n)
  \/ \E x \in Prefixes, v \in BufNrs, n \in ForeignNames : RequestLoad(x, v, n)
  \/ \E x \in Prefixes, v \in BufNrs, n \in ForeignNames : RequestSave(x, v, n)
  \/ \E v \in BufNrs : Write(v)
  \/ \E ok \in BOOLEAN : LoadReturn(ok)
  \/ \E ok \in BOOLEAN : SaveReturn(ok)
  \/ \E v \in BufNrs, a \in ActionNames : Action(v, a)

SpecScheme == Init /\ [][NextScheme]_vars

(***************************************************************************)
(* opener.ts: parseMods                                                    *)
(***************************************************************************)
\* the words of the host's command modifiers, as strings of characters
W_tab == <<"t", "a", "b">>
W_horizontal == <<"h", "o", "r", "i", "z", "o", "n", "t", "a", "l">>
W_vertical == <<"v", "e", "r", "t", "i", "c", "a", "l">>
W_aboveleft == <<"a", "b", "o", "v", "e", "l", "e", "f", "t">>
W_leftabove == <<"l", "e", "f", "t", "a", "b", "o", "v", "e">>
W_belowright == <<"b", "e", "l", "o", "w", "r", "i", "g", "h", "t">>
W_rightbelow == <<"r", "i", "g", "h", "t", "b", "e", "l", "o", "w">>
W_topleft == <<"t", "o", "p", "l", "e", "f", "t">>
W_botright == <<"b", "o", "t", "r", "i", "g", "h", "t">>
W_silent == <<"s", "i", "l", "e", "n", "t">>

SplitWords == {W_tab, W_horizontal, W_vertical}
DirectionWords == {W_aboveleft, W_leftabove, W_belowright, W_rightbelow, W_topleft, W_botright}

\* the value a variable of the loop ends with: the last of the words that is one of
\* keys, the empty string when none is
RECURSIVE lastWordIn(_, _)
lastWordIn(words, keys) ==
  IF words = <<>> THEN <<>>
  ELSE IF words[Len(words)] \in keys THEN words[Len(words)]
  ELSE lastWordIn(SubSeq(words, 1, Len(words) - 1), keys)

ParseResult(style) == [threw |-> FALSE, val |-> style]
InvalidOperation == [threw |-> TRUE, val |-> "invalid operation"]

\* splitStyle that looks at the direction only
splitStyleOfDirection(split, direction) ==
  CASE direction = <<>> -> ParseResult("")
    [] direction \in {W_aboveleft, W_leftabove} -> ParseResult("split-above")
    [] direction \in {W_belowright, W_rightbelow} -> ParseResult("split-below")
    [] direction = W_topleft -> ParseResult("split-top")
    [] direction = W_botright -> ParseResult("split-bottom")
    [] OTHER -> InvalidOperation

\* the switch on split and direction
splitStyle(split, direction) ==
  CASE split = <<>> ->
         (CASE direction = <<>> -> ParseResult("")
            [] direction \in {W_aboveleft, W_leftabove} -> ParseResult("split-above")
            [] direction \in {W_belowright, W_rightbelow} -> ParseResult("split-below")
            [] direction = W_topleft -> ParseResult("split-top")
            [] direction = W_botright -> ParseResult("split-bottom")
            [] OTHER -> InvalidOperation)
    [] split = W_tab -> ParseResult("split-tab")
    [] split = W_horizontal ->
         (CASE direction \in {<<>>, W_aboveleft, W_leftabove} -> ParseResult("split-above")
            [] direction \in {W_belowright, W_rightbelow} -> ParseResult("split-below")
            [] direction = W_topleft -> ParseResult("split-top")
            [] direction = W_botright -> ParseResult("split-bottom")
            [] OTHER -> InvalidOperation)
    [] split = W_vertical ->
         (CASE direction \in {<<>>, W_aboveleft, W_leftabove} -> ParseResult("split-left")
            [] direction \in {W_belowright, W_rightbelow} -> ParseResult("split-right")
            [] direction = W_topleft -> ParseResult("split-leftmost")
            [] direction = W_botright -> ParseResult("split-rightmost")
            [] OTHER -> InvalidOperation)
    [] OTHER -> InvalidOperation

parseWords(words) ==
  splitStyle(lastWordIn(words, SplitWords), lastWordIn(words, DirectionWords))

\* mods is Absent for undefined
parseMods(mods) ==
  IF ~mods.some \/ mods.val = <<>> THEN ParseResult("")
  ELSE parseWords(Split(mods.val, " "))

\* a call of parseMods, which touches nothing of the router or the host
ParseMods(mods) ==
  /\ last' = Last("parseMods", 0, <<>>,
                  IF parseMods(mods).threw THEN "InvalidOperation" ELSE "ok",
                  None, <<>>, mods, parseMods(mods), <<>>)
  /\ UNCHANGED <<commands, handlers, defaultHandler, dispatcher, readCmds, bufs, nbufs, wins, curw,
                 pending>>

(***************************************************************************)
(* SpecOpen: open with every opener, on the views of two registered paths. *)
(***************************************************************************)
OpenHandler == "hRO"

NextOpen ==
  \/ \E p \in Paths : Handle(p, OpenHandler)
  \/ \E x \in Prefixes : Dispatch(x)
  \/ \E p \in Paths, o \in Openers : Open(p, Absent, Absent, o)
  \/ \E ok \in BOOLEAN : LoadReturn(ok)

SpecOpen == Init /\ [][NextOpen]_vars

(***************************************************************************)
(* SpecMods: parseMods on the modifier strings of up to MaxWords words.    *)
(***************************************************************************)
\* the words of the strings: the keywords, a modifier that is none of them, and the
\* empty word that two spaces in a row or a space at an end give
ModWords == SplitWords \cup DirectionWords \cup {W_silent, <<>>}

ModStrings ==
  {Absent} \cup
  { Some(Join(ws, <<" ">>)) : ws \in UNION { [1..n -> ModWords] : n \in 1..MaxWords } }

\* a router just constructed, and the modifier string that parseMods is given
InitMods ==
  /\ handlers = [p \in {} |-> None]
  /\ defaultHandler = None
  /\ dispatcher = {}
  /\ readCmds = <<>>
  /\ bufs = [v \in BufNrs |-> NoBuf]
  /\ nbufs = 0
  /\ wins = <<0>>
  /\ curw = 1
  /\ pending = NoPending
  /\ commands = NoCommands
  /\ \E mods \in ModStrings :
       last = Last("mods", 0, <<>>, "ok", None, <<>>, mods, Absent, <<>>)

NextMods == last.op = "mods" /\ ParseMods(last.args)

SpecMods == InitMods /\ [][NextMods]_vars

(***************************************************************************)
(* SpecRegistry: every handler at every path and as the fallback, and the  *)
(* loads of one name that look the registry up.                            *)
(***************************************************************************)
NextRegistry ==
  \/ \E p \in Paths, h \in Handlers : Handle(p, h)
  \/ \E h \in Handlers : HandleFallback(h)
  \/ \E x \in Prefixes : Dispatch(x)
  \/ HostEdit(LifeName)
  \/ \E v \in BufNrs : Reload(v)
  \/ \E ok \in BOOLEAN : LoadReturn(ok)

SpecRegistry == Init /\ [][NextRegistry]_vars

(***************************************************************************)
(* SpecRename: a view of path "a" that the user renames to the name of     *)
(* path "ab", each path with a handler of its own.                         *)
(***************************************************************************)
RenamedPath == <<"a", "b">>

RenamedName == bufname(RenamedPath, Absent, Absent)

NextRename ==
  \/ Handle(LifePath, "hRW")
  \/ Handle(RenamedPath, "hAlt")
  \/ \E x \in Prefixes : Dispatch(x)
  \/ HostEdit(LifeName)
  \/ \E v \in BufNrs : Rename(v, RenamedName)
  \/ \E v \in BufNrs : Reload(v)
  \/ \E v \in BufNrs : Write(v)
  \/ \E ok \in BOOLEAN : LoadReturn(ok)
  \/ \E ok \in BOOLEAN : SaveReturn(ok)
  \/ WriteNext
  \/ \E v \in BufNrs, a \in ActionNames : Action(v, a)

SpecRename == Init /\ [][NextRename]_vars

(***************************************************************************)
(* SpecPrefix: dispatch under the default prefix and under another one,    *)
(* and the read and write signals of the views of one path.                *)
(***************************************************************************)
OtherPrefix == "plug"

NextPrefix ==
  \/ \E h \in Handlers : Handle(LifePath, h)
  \/ \E x \in Prefixes \cup {OtherPrefix} : Dispatch(x)
  \/ HostEdit(LifeName)
  \/ \E v \in BufNrs : Reload(v)
  \/ \E v \in BufNrs : Write(v)
  \/ \E ok \in BOOLEAN : LoadReturn(ok)
  \/ \E ok \in BOOLEAN : SaveReturn(ok)
  \/ WriteNext

SpecPrefix == Init /\ [][NextPrefix]_vars

(***************************************************************************)
(* SpecViews: two views, one of each path, side by side: their loads,      *)
(* reloads, writes and actions.                                            *)
(***************************************************************************)
ViewsHandler == "hAlt"

NextViews ==
  \/ \E p \in Paths : Handle(p, ViewsHandler)
  \/ \E x \in Prefixes : Dispatch(x)
  \/ \E p \in Paths : HostEdit(bufname(p, Absent, Absent))
  \/ \E v \in BufNrs : Reload(v)
  \/ \E v \in BufNrs : Write(v)
  \/ \E ok \in BOOLEAN : LoadReturn(ok)
  \/ \E ok \in BOOLEAN : SaveReturn(ok)
  \/ WriteNext
  \/ \E v \in BufNrs, a \in ActionNames : Action(v, a)

SpecViews == Init /\ [][NextViews]_vars

(***************************************************************************)
(* SpecAdapter: the dispatched methods, given arguments of the right and   *)
(* of wrong shapes.                                                        *)
(***************************************************************************)
\* the values given for each argument, in a row: values of different types are
\* never members of one set
UPaths == <<Str(LifePath), Num(1)>>

UParams == <<Rec(<< <<(<<"k">>), Str(<<"v">>)>> >>), Rec(<< <<(<<"k">>), Num(1)>> >>),
             Str(<<"k">>)>>

UFragments == <<Undefined, Num(1)>>

UOpeners ==
  <<Undefined,
    Rec([split |-> Str("split-top"), reuse |-> Bool(TRUE)]),
    Rec([split |-> Str("split-diagonal"), reuse |-> Undefined]),
    Rec([split |-> Undefined, reuse |-> Str(<<"v">>)]),
    Str(<<"v">>)>>

UBufs == <<Num(1), Str(<<"a">>)>>

UFiles == <<Str(bufname(LifePath, ParamsKV, Absent)), Num(1)>>

UActs == <<Str("play"), Num(1)>>

UActParams == <<Rec(<<>>), Undefined>>

NextAdapter ==
  \/ Handle(LifePath, ViewsHandler)
  \/ \E x \in Prefixes : Dispatch(x)
  \/ \E x \in Prefixes, p \in DOMAIN UPaths, ps \in DOMAIN UParams,
        f \in DOMAIN UFragments, o \in DOMAIN UOpeners :
       DispatchedOpen(x, UPaths[p], UParams[ps], UFragments[f], UOpeners[o])
  \/ \E x \in Prefixes, p \in DOMAIN UPaths, ps \in DOMAIN UParams,
        f \in DOMAIN UFragments :
       DispatchedPreload(x, UPaths[p], UParams[ps], UFragments[f])
  \/ \E x \in Prefixes, b \in DOMAIN UBufs, f \in DOMAIN UFiles :
       DispatchedLoad(x, UBufs[b], UFiles[f])
  \/ \E x \in Prefixes, b \in DOMAIN UBufs, f \in DOMAIN UFiles :
       DispatchedSave(x, UBufs[b], UFiles[f])
  \/ \E x \in Prefixes, b \in DOMAIN UBufs, a \in DOMAIN UActs, ps \in DOMAIN UActParams :
       DispatchedAction(x, UBufs[b], UActs[a], UActParams[ps])
  \/ \E ok \in BOOLEAN : LoadReturn(ok)
  \/ \E ok \in BOOLEAN : SaveReturn(ok)

SpecAdapter == Init /\ [][NextAdapter]_vars

(***************************************************************************)
(* SpecNew: the constructor, given the schemes of up to MaxScheme          *)
(* characters, the empty one among them.                                   *)
(***************************************************************************)
\* constructor(scheme): an empty map of handlers and the scheme as it is given;
\* no statement of it can throw
newRouter(scheme) ==
  [threw |-> FALSE, handlers |-> [p \in {} |-> None], scheme |-> scheme,
   defaultHandler |-> None]

NewSchemes == UNION { [1..n -> Letters] : n \in 0..MaxScheme }

\* the host as it starts, and the scheme the plugin is about to construct with
InitNew ==
  /\ handlers = [p \in {} |-> None]
  /\ defaultHandler = None
  /\ dispatcher = {}
  /\ readCmds = <<>>
  /\ bufs = [v \in BufNrs |-> NoBuf]
  /\ nbufs = 0
  /\ wins = <<0>>
  /\ curw = 1
  /\ pending = NoPending
  /\ commands = NoCommands
  /\ \E scheme \in NewSchemes :
       last = Last("scheme", 0, scheme, "ok", None, <<>>, NoArgs, Absent, <<>>)

\* new Router(scheme)
New(scheme) ==
  /\ handlers' = newRouter(scheme).handlers
  /\ defaultHandler' = newRouter(scheme).defaultHandler
  /\ last' = Last("new", 0, newRouter(scheme).scheme,
                  IF newRouter(scheme).threw THEN "InvalidScheme" ELSE "ok",
                  None, <<>>, NoArgs, Absent, <<>>)
  /\ UNCHANGED <<commands, dispatcher, readCmds, bufs, nbufs, wins, curw, pending>>

NextNew == last.op = "scheme" /\ New(last.name)

SpecNew == InitNew /\ [][NextNew]_vars

(***************************************************************************)
(* Spec: the names the Router creates.  Paths are registered, among them   *)
(* ones that hold the characters the name's syntax uses, and names are     *)
(* created for them with every shape of params and fragment.               *)
(***************************************************************************)
NamePaths ==
  { <<"a">>, <<"a", ";", "b">>, <<"a", "#">>, <<"%", "3", "B">>,
    <<"t", ":", "/", "/", "a">> }

EmptyParams == Some(<<>>)

EmptyFragment == Some(<<>>)

NextNames ==
  \/ \E path \in NamePaths, h \in {"hRO", "hRW"} : Handle(path, h)
  \/ \E path \in NamePaths, params \in {Absent, EmptyParams, ParamsKV},
        fragment \in {Absent, EmptyFragment, FragmentF} :
        CreateName(path, params, fragment)

SpecNames == Init /\ [][NextNames]_vars

(***************************************************************************)
(* User commands.  In the version of the Router that defines them,         *)
(* dispatch also puts `${prefix}:setup:command` and                        *)
(* `${prefix}:command:open` in the dispatcher, and open takes only paths   *)
(* that are registered.                                                    *)
(***************************************************************************)
\* the characters \w matches, of those the model writes
UpperOf ==
  [c \in Letters |->
     CASE c = "a" -> "A" [] c = "b" -> "B" [] c = "f" -> "F" [] c = "k" -> "K"
       [] c = "v" -> "V" [] c = "s" -> "S" [] c = "t" -> "T"]

WordChars == Letters \cup {UpperOf[c] : c \in Letters} \cup {"O", "p", "e", "n", "_"}

toUpperCase(c) == IF c \in DOMAIN UpperOf THEN UpperOf[c] ELSE c

\* pascalCase: a word character at the start or after characters that are no
\* word characters is put in upper case, and those characters are dropped
\* pascalCase putting in upper case only the character at the start of the string
RECURSIVE pascalFromStartOnly(_, _)
pascalFromStartOnly(str, boundary) ==
  IF str = <<>> THEN <<>>
  ELSE IF Head(str) \notin WordChars THEN pascalFromStartOnly(Tail(str), FALSE)
  ELSE <<IF boundary THEN toUpperCase(Head(str)) ELSE Head(str)>>
         \o pascalFromStartOnly(Tail(str), FALSE)

RECURSIVE pascalFrom(_, _)
pascalFrom(str, boundary) ==
  IF str = <<>> THEN <<>>
  ELSE IF Head(str) \notin WordChars THEN pascalFrom(Tail(str), TRUE)
  ELSE <<IF boundary THEN toUpperCase(Head(str)) ELSE Head(str)>>
         \o pascalFrom(Tail(str), FALSE)

pascalCase(str) == pascalFrom(str, TRUE)

\* pascalWords(...words): words.map(pascalCase).join("")
RECURSIVE pascalWords(_)
pascalWords(words) ==
  IF words = <<>> THEN <<>> ELSE pascalCase(Head(words)) \o pascalWords(Tail(words))

OpenWord == <<"O", "p", "e", "n">>

\* commandName(scheme, "Open", path): the words in Pascal case, joined
commandName(scheme, word, path) == pascalCase(scheme) \o pascalCase(word) \o pascalCase(path)

\* parseArguments(args)[1]: the flags, --name=value or --name, of the arguments
IsFlag(word) == Len(word) > 2 /\ SubSeq(word, 1, 2) = <<"-", "-">>

flagOf(word) ==
  LET body == Drop(word, 2)
      i == IndexOf(body, "=")
  IN IF i = 0 THEN <<body, <<>>>> ELSE <<SubSeq(body, 1, i - 1), Drop(body, i)>>

RECURSIVE parseFlags(_)
parseFlags(args) ==
  IF args = <<>> THEN <<>>
  ELSE (IF IsFlag(Head(args)) THEN <<flagOf(Head(args))>> ELSE <<>>)
         \o parseFlags(Tail(args))

\* the prefix of the method the defined command requests: the text of the command
\* names 'router:command:open', whatever prefix the dispatcher was made with
CommandPrefix(prefix) == "router"

\* `${prefix}:setup:command`: defines the command; the host refuses (E174) to
\* define again a name it already has
SetupCommand(prefix, path, uName) ==
  /\ Idle
  /\ prefix \in dispatcher
  /\ LET name == IF uName.some /\ uName.val # <<>> THEN uName.val
                 ELSE commandName(Scheme, OpenWord, path)
     IN IF name \in DOMAIN commands
        THEN /\ last' = Last("setup", 0, name, "E174", None, <<>>,
                             Args(path, Absent, Absent), uName, <<"command">>)
             /\ UNCHANGED commands
        ELSE /\ commands' = [n \in DOMAIN commands \cup {name} |->
                               IF n = name
                               THEN [prefix |-> CommandPrefix(prefix), path |-> path]
                               ELSE commands[n]]
             /\ last' = Last("setup", 0, name, "ok", None, <<>>,
                             Args(path, Absent, Absent), uName, <<"command">>)
  /\ UNCHANGED <<handlers, defaultHandler, dispatcher, readCmds, bufs, nbufs, wins, curw,
                 pending>>

\* `${prefix}:command:open` and the open it calls: the flags become the params,
\* the fragment is the empty string the command passes
CommandOpen(path, args) ==
  LET params == Some(parseFlags(args))
      name == bufname(path, params, EmptyFragment)
  IN IF path \notin DOMAIN handlers
     THEN /\ last' = Last("command", 0, <<>>, "NoHandler", None, <<>>,
                          Args(path, params, EmptyFragment), Absent, <<>>)
          /\ UNCHANGED <<bufs, nbufs, wins, curw, pending>>
     ELSE EditCmd(<<"edit">>, name, "command", Args(path, params, EmptyFragment),
                  Some(name))

\* the user runs a defined command with arguments: the host requests the method
\* the command names, which fails when the dispatcher holds no such method
InvokeCommand(name, args) ==
  /\ Idle
  /\ name \in DOMAIN commands
  /\ UNCHANGED <<commands, handlers, defaultHandler, dispatcher, readCmds>>
  /\ IF commands[name].prefix \notin dispatcher
     THEN /\ last' = Last("command", 0, name, "NoMethod", None, <<>>,
                          Args(commands[name].path, Absent, Absent), Absent, <<>>)
          /\ UNCHANGED <<bufs, nbufs, wins, curw, pending>>
     ELSE CommandOpen(commands[name].path, args)

(***************************************************************************)
(* Spec: commands.  Paths are registered, the dispatcher is made under the *)
(* default prefix or another, commands are set up through it, with a name  *)
(* or without, and run with flags.                                         *)
(***************************************************************************)
CommandPaths == {<<"a">>, <<"a", "-", "b">>}

GivenName == Some(<<"F", "o", "o">>)

FlagKV == <<"-", "-", "k", "=", "v">>

CommandArgs == << <<>>, <<FlagKV>>, <<FlagKV, <<"b">>>> >>

CommandNames ==
  {commandName(Scheme, OpenWord, path) : path \in CommandPaths} \cup {GivenName.val}

NextCommand ==
  \/ \E path \in CommandPaths : Handle(path, "hRO")
  \/ \E x \in {"router", OtherPrefix} : Dispatch(x)
  \/ \E x \in {"router", OtherPrefix}, path \in CommandPaths, uName \in {Absent, GivenName} :
       SetupCommand(x, path, uName)
  \/ \E name \in CommandNames, i \in DOMAIN CommandArgs :
       InvokeCommand(name, CommandArgs[i])
  \/ \E ok \in BOOLEAN : LoadReturn(ok)

SpecCommand == Init /\ [][NextCommand]_vars

(***************************************************************************)
(* The read and the write of the version of the Router that defines the    *)
(* commands.  Its dispatch and its load name the methods of their signals  *)
(* by fixed texts.                                                         *)
(***************************************************************************)
\* the operations that version's dispatch puts in the dispatcher, per prefix
VariantMethods ==
  {"open", "command:open", "internal:load", "internal:save", "action", "setup:command"}

VariantDispatcher == dispatcher \X VariantMethods

\* the method the read signal requests: 'router:internal:load'
VariantReadMethod == <<"router", "internal:load">>

\* the method the write intercept notifies: 'router:save'
VariantWriteMethod == <<"router", "save">>

\* dispatch(denops, dispatcher, prefix)
VariantDispatch(prefix) ==
  /\ Idle
  /\ readCmds' = <<VariantReadMethod[1]>>
  /\ dispatcher' = dispatcher \cup {prefix}
  /\ last' = Last("dispatch", 0, <<>>, "ok", None, <<>>, NoArgs, Absent, <<>>)
  /\ UNCHANGED <<commands, handlers, defaultHandler, bufs, nbufs, wins, curw, pending>>

\* what #load sets once the callback has returned (bufhidden is not modelled)
VariantLoadSettings(buf, path, h, afile) ==
  LET b1 == [buf EXCEPT !.marker = Some(path), !.swapfile = FALSE]
  IN IF HasSave(h)
     THEN [b1 EXCEPT !.writeCmds = Append(@, [prefix |-> VariantWriteMethod[1],
                                              abuf |-> pending.buf, afile |-> afile]),
                     !.buftype = "acwrite"]
     ELSE [b1 EXCEPT !.modifiable = FALSE]

\* the load callback returns or throws
VariantLoadReturn(ok) ==
  /\ pending.kind = "load"
  /\ bufs' = IF ok
             THEN [bufs EXCEPT ![pending.buf] =
                     [VariantLoadSettings(bufs[pending.buf], pending.path,
                                          pending.handler, pending.afile) EXCEPT
                        !.content = "loaded", !.loader = pending.handler,
                        !.phase = IF HasSave(pending.handler)
                                  THEN "LoadedWritable" ELSE "LoadedReadOnly"]]
             ELSE [bufs EXCEPT ![pending.buf].phase = "LoadFailed"]
  /\ last' = Last("loadret", pending.buf, pending.afile,
                  IF ok THEN "ok" ELSE "HandlerThrew", pending.handler, <<>>,
                  pending.args, IF ok THEN pending.ret ELSE Absent, <<>>)
  /\ pending' = NoPending
  /\ UNCHANGED <<commands, handlers, defaultHandler, dispatcher, readCmds, nbufs, wins,
                 curw>>

\* the user writes the view: the host runs the write intercept, whose notify
\* reaches #save only when the dispatcher holds the method it names
VariantWrite(v) ==
  /\ Idle
  /\ bufs[v].exists /\ bufs[v].loaded
  /\ UNCHANGED <<commands, handlers, defaultHandler, dispatcher, readCmds, nbufs, wins, curw>>
  /\ IF bufs[v].writeCmds = <<>>
     THEN /\ last' = Last("write", v, bufs[v].name, "NoAutocmd", None, <<>>, NoArgs,
                          Absent, <<>>)
          /\ UNCHANGED <<commands, bufs, pending>>
     ELSE IF VariantWriteMethod \notin VariantDispatcher
     THEN /\ last' = Last("write", v, bufs[v].writeCmds[1].afile, "NoMethod", None,
                          <<>>, NoArgs, Absent, <<>>)
          /\ UNCHANGED <<commands, bufs, pending>>
     ELSE WriteSignal(v, 1, "write")

(***************************************************************************)
(* Spec: the writes of that version, under the default prefix and another. *)
(***************************************************************************)
NextVariant ==
  \/ \E h \in Handlers : Handle(LifePath, h)
  \/ \E x \in {"router", OtherPrefix} : VariantDispatch(x)
  \/ HostEdit(LifeName)
  \/ \E v \in BufNrs : Reload(v)
  \/ \E v \in BufNrs : UserModify(v)
  \/ \E ok \in BOOLEAN : VariantLoadReturn(ok)
  \/ \E v \in BufNrs : VariantWrite(v)

SpecVariant == Init /\ [][NextVariant]_vars

(***************************************************************************)
(* Spec: pascalWords.  One or two words are drawn from the words of up to  *)
(* MaxChars characters: lower and upper case letters, a separator and the  *)
(* underscore, which is a word character.                                  *)
(***************************************************************************)
WordAlphabet == {"a", "B", "/", "_"}

WordsGiven == UNION { [1..n -> WordAlphabet] : n \in 0..MaxChars }

WordLists == { <<w>> : w \in WordsGiven } \cup (WordsGiven \X WordsGiven)

InitWords ==
  /\ handlers = [p \in {} |-> None]
  /\ defaultHandler = None
  /\ dispatcher = {}
  /\ readCmds = <<>>
  /\ bufs = [v \in BufNrs |-> NoBuf]
  /\ nbufs = 0
  /\ wins = <<0>>
  /\ curw = 1
  /\ pending = NoPending
  /\ commands = NoCommands
  /\ \E words \in WordLists :
       last = Last("words", 0, <<>>, "ok", None, <<>>, words, Absent, <<>>)

\* pascalWords(...words)
PascalWords(words) ==
  /\ last' = Last("pascalWords", 0, <<>>, "ok", None, <<>>, words,
                  Some(pascalWords(words)), <<>>)
  /\ UNCHANGED <<commands, handlers, defaultHandler, dispatcher, readCmds, bufs, nbufs, wins,
                 curw, pending>>

NextWords == last.op = "words" /\ PascalWords(last.args)

SpecWords == InitWords /\ [][NextWords]_vars

(***************************************************************************)
(* Properties.  They read `last`, the record of what the last step did,    *)
(* and, for what a step changes, compare the states before and after it.   *)
(***************************************************************************)
\* the handler the registry answers for a path: the one registered under exactly that
\* path, else the fallback (None when there is neither)
Resolved(expr) == IF expr \in DOMAIN handlers THEN handlers[expr] ELSE defaultHandler

\* the operations that make the host send the read signal
ReadOps == {"open", "preload", "hostedit", "reload"}

\* the last step sent the read signal and internal:load (Router.#load) has run #match
LoadEntered ==
  /\ last.op \in ReadOps
  /\ last.host # <<>>
  /\ last.result \in {"pending", "Malformed", "InvalidScheme", "NoHandler"}

\* the last step delivered the write signal and internal:save (Router.#save) has run
WriteEntered == last.op = "write" /\ last.result \notin {"NoAutocmd", "NoMethod"}

\* C1: resolution of a name of the Router's scheme returns the handler registered
\* under exactly the name's path (never one registered under a prefix of it, never
\* the fallback); else the fallback if one is set; else it fails with the
\* no-handler error and no handler callback is invoked.
C1_Resolution ==
  LoadEntered =>
    LET expr == parse(last.name).expr IN
    IF expr \in DOMAIN handlers
    THEN last.result = "pending" /\ last.cbs = << <<handlers[expr], "load">> >>
    ELSE IF defaultHandler # None
    THEN last.result = "pending" /\ last.cbs = << <<defaultHandler, "load">> >>
    ELSE last.result = "NoHandler" /\ last.cbs = <<>>

\* a handler is registered under "a", none under "ab", no fallback: the read signal
\* for a name of path "ab" fails with the no-handler error
C1_PrefixIsNoMatch ==
  /\ LoadEntered
  /\ parse(last.name).expr = <<"a", "b">>
  /\ <<"a">> \in DOMAIN handlers
  /\ <<"a", "b">> \notin DOMAIN handlers
  /\ last.result = "NoHandler"
  /\ last.cbs = <<>>

LoadFailedNow ==
  \/ LoadEntered /\ last.result # "pending"
  \/ last.op = "loadret" /\ last.result = "HandlerThrew"

\* C3: a failure of internal:load (the name does not parse, its scheme is not the
\* Router's, no handler, or handler.load throws) is contained: no fault reaches the
\* host, the view is LoadFailed with its content replaced by the error message, and
\* it is forced read-only.
C3_LoadFailureContained ==
  LoadFailedNow =>
    /\ ~last.fault
    /\ bufs[last.buf].phase = "LoadFailed"
    /\ bufs[last.buf].content = "error"
    /\ ~bufs[last.buf].modifiable
    /\ bufs[last.buf].readonly

\* C4 as stated: for a view loaded by a handler H that defines save, every write
\* signal invokes H.save and no other handler's, whatever has been registered since.
C4_SaveOfLoader ==
  (WriteEntered /\ bufs[last.buf].loader \in SaveDefined) =>
    last.cbs = << <<bufs[last.buf].loader, "save">> >>

\* C4: every write signal of a view invokes the save of the handler that the view's
\* name resolves to in the registry as it is when the signal is handled, and no other
\* handler's; when that handler defines no save, no save is invoked at all.  (It is
\* the handler that loaded the view as long as the registration has not changed.)
C4_SaveResolvedAtWrite ==
  WriteEntered =>
    LET r == Resolved(parse(bufs[last.buf].name).expr) IN
    /\ (r \in SaveDefined) => (last.result = "pending" /\ last.cbs = << <<r, "save">> >>)
    /\ (r \notin SaveDefined) => (last.cbs = <<>> /\ last.fault)
    /\ (r = bufs[last.buf].loader /\ r \in SaveDefined) =>
         last.cbs = << <<bufs[last.buf].loader, "save">> >>

\* a view loaded by hRW is written after hAlt was registered: hAlt.save is invoked
C4_OtherHandlerSaves ==
  /\ WriteEntered
  /\ bufs[last.buf].loader = "hRW"
  /\ last.cbs = << <<"hAlt", "save">> >>

\* C5: internal:save on a Loaded-Writable view: when handler.save succeeds the
\* modified flag is cleared; when it throws, the error reaches the caller, the
\* modified flag is as it was, the view is still Loaded-Writable (its state and its
\* read-only settings are untouched) and its content is unchanged.
C5_SaveOutcome ==
  [][ (last'.op = "saveret" /\ pending.phase0 = "LoadedWritable") =>
        LET v == pending.buf IN
        IF last'.result = "ok"
        THEN /\ ~bufs'[v].modified
             /\ bufs'[v].phase = "LoadedWritable"
             /\ ~last'.fault
        ELSE /\ last'.fault
             /\ bufs'[v].modified = bufs[v].modified
             /\ bufs'[v].phase = "LoadedWritable"
             /\ bufs'[v].content = bufs[v].content
             /\ bufs'[v].modifiable = bufs[v].modifiable
             /\ bufs'[v].readonly = bufs[v].readonly ]_vars

\* the save of an edited view has thrown: the view is Loaded-Writable and still modified
C5_SaveThrewKeepsChanges ==
  /\ last.op = "saveret"
  /\ last.result = "HandlerThrew"
  /\ last.fault
  /\ bufs[last.buf].modified
  /\ bufs[last.buf].content = "edited"
  /\ bufs[last.buf].phase = "LoadedWritable"

\* C6: internal:save for a name whose resolved handler defines no save fails with the
\* not-writable error, invokes no handler callback, and leaves the view (its modified
\* flag, its read-only settings, its marker) as it was.
C6_NotWritable ==
  [][ (/\ last'.op = "write"
       /\ last'.result \notin {"NoAutocmd", "NoMethod"}
       /\ Resolved(parse(last'.name).expr) \in Handlers \ SaveDefined)
      => (/\ last'.result = "NotWritable"
          /\ last'.cbs = <<>>
          /\ pending' = NoPending
          /\ bufs' = bufs) ]_vars

\* a modified view loaded by hRW is written after hRO took over its path
C6_WriteRefused ==
  /\ last.op = "write"
  /\ last.result = "NotWritable"
  /\ last.cbs = <<>>
  /\ bufs[last.buf].loader = "hRW"
  /\ bufs[last.buf].modified

\* C7: handler.save is invoked for a view only while the view is Loaded-Writable: a
\* write request for a view that is Unloaded, Loading, Loaded-ReadOnly or LoadFailed
\* never reaches handler.save.
C7_SaveOnlyWhenWritable ==
  (pending.kind = "save") => (pending.phase0 = "LoadedWritable")

\* C8: with no handler registered under the path and no fallback set, open and
\* preload fail with the no-handler error before any host view operation: no host
\* command is issued, no buffer is added, no window is created or focused, and no
\* load is invoked.
C8_NoHandlerBeforeHost ==
  [][ (/\ last'.op \in {"open", "preload"}
       /\ last'.args.path \notin DOMAIN handlers
       /\ defaultHandler = None)
      => (/\ last'.result = "NoHandler"
          /\ last'.host = <<>>
          /\ last'.cbs = <<>>
          /\ UNCHANGED <<commands, bufs, nbufs, wins, curw, pending>>) ]_vars

\* preload of an unregistered path has failed although the read signal is wired
C8_PreloadRefused ==
  /\ last.op = "preload"
  /\ last.result = "NoHandler"
  /\ last.args.path \notin DOMAIN handlers
  /\ defaultHandler = None
  /\ readCmds # <<>>
  /\ last.host = <<>>

\* C9: Router.bufname succeeds if and only if the path is registered or a fallback
\* is set; the name it returns parses back to the Router's scheme and the given path,
\* params and fragment; open and preload return exactly that name, and it is the name
\* of the view they open.
C9_Name ==
  /\ (last.op = "bufname") =>
       (last.ret.some <=> (last.args.path \in DOMAIN handlers \/ defaultHandler # None))
  /\ (last.op \in {"bufname", "open", "preload", "loadret"} /\ last.ret.some) =>
       /\ parseOk(last.ret.val)
       /\ parse(last.ret.val) =
            Bufname(Scheme, last.args.path, last.args.params, last.args.fragment)
       /\ last.ret.val = bufname(last.args.path, last.args.params, last.args.fragment)
       /\ (last.op # "bufname") => (last.name = last.ret.val)

\* open or preload of path "ab" with params and fragment has returned, after its load,
\* the name s://ab;k=v#f
C9_OpenReturnsName ==
  /\ last.op = "loadret"
  /\ last.result = "ok"
  /\ last.args = Args(<<"a", "b">>, ParamsKV, FragmentF)
  /\ last.ret = Some(<<"s", ":", "/", "/", "a", "b", ";", "k", "=", "v", "#", "f">>)

\* C10: with a fallback set, open and preload of a path that has no registration of
\* its own succeed; the read signal invokes the fallback's load and no other handler's;
\* the name the fallback gets carries the requested path; and the marker written after
\* the load is the requested path.
C10_Fallback ==
  /\ (/\ last.op \in {"open", "preload"}
      /\ last.args.path \notin DOMAIN handlers
      /\ defaultHandler # None) =>
       /\ ~last.fault
       /\ parse(last.name).expr = last.args.path
       /\ (last.result = "pending") =>
            /\ last.cbs = << <<defaultHandler, "load">> >>
            /\ pending.handler = defaultHandler
            /\ parse(pending.afile).expr = last.args.path
  /\ (last.op = "loadret" /\ last.result = "ok" /\ last.args # NoArgs) =>
       bufs[last.buf].marker = Some(last.args.path)

\* "a" is registered and "ab" is not: the view of "ab" has been loaded by the fallback
\* and bears the marker "ab"
C10_LoadedByFallback ==
  /\ last.op = "loadret"
  /\ last.result = "ok"
  /\ last.handler = FallbackHandler
  /\ last.args.path = <<"a", "b">>
  /\ <<"a">> \in DOMAIN handlers
  /\ <<"a", "b">> \notin DOMAIN handlers
  /\ bufs[last.buf].marker = Some(<<"a", "b">>)
  /\ bufs[last.buf].loader = FallbackHandler

\* the last step ran Router.#match on last.name: in internal:load, in internal:save
\* or in Router.action
MatchEntered ==
  \/ LoadEntered
  \/ WriteEntered
  \/ last.op \in {"reqload", "reqsave", "action"}

\* C11: a name whose scheme is not the Router's resolves to no handler in load, save
\* or action, even when its path is registered and a fallback is set: the operation
\* fails with the invalid-scheme error and no handler callback is invoked.
C11_InvalidScheme ==
  (MatchEntered /\ parseOk(last.name) /\ parse(last.name).scheme # Scheme) =>
    /\ last.result = "InvalidScheme"
    /\ last.fault
    /\ last.handler = None
    /\ last.cbs = <<>>

\* internal:save was requested for "t://a" while "a" is registered and a fallback is set
C11_ForeignSaveRefused ==
  /\ last.op = "reqsave"
  /\ last.name = ForeignName
  /\ parse(last.name).expr \in DOMAIN handlers
  /\ handlers[parse(last.name).expr] \in SaveDefined
  /\ defaultHandler # None
  /\ last.result = "InvalidScheme"

C13_ActionAnyState ==
  (/\ last.op = "action"
   /\ last.buf \in BufNrs
   /\ bufs[last.buf].exists
   /\ Resolved(parse(bufs[last.buf].name).expr) \in Handlers
   /\ last.act \in ActionsOf(Resolved(parse(bufs[last.buf].name).expr)))
  => /\ last.result = "ok"
     /\ last.handler = Resolved(parse(bufs[last.buf].name).expr)
     /\ last.cbs = << <<last.handler, last.act>> >>

\* the view was loaded by hAlt, a later reload threw, and hAlt's action has run
C13_ActionAfterFailedLoad ==
  /\ last.op = "action"
  /\ last.result = "ok"
  /\ last.cbs = << <<"hAlt", "play">> >>
  /\ bufs[last.buf].loader = "hAlt"
  /\ bufs[last.buf].phase = "LoadFailed"
  /\ handlers = (LifePath :> "hAlt")
  /\ defaultHandler = None

\* the buffer of that name has no content yet (or there is no such buffer)
NotYetLoaded(name) == BufNamed(bufs, name) = 0 \/ ~bufs[BufNamed(bufs, name)].loaded

\* C14: Router.open does not call handler.load itself: a load is invoked only by the
\* read signal, so none is invoked when the signal is not wired or the name already
\* has content.  Opening a name that has no content yet, of a registered path p,
\* invokes the load of the handler at p exactly once, for the view that the host
\* signalled (the one now displayed), with a name that parses to exactly the path,
\* params and fragment given to open.
C14_OpenLoadsOnce ==
  [][ (last'.op = "open") =>
        LET a == last'.args
            name == bufname(a.path, a.params, a.fragment)
        IN /\ (last'.cbs # <<>>) => (readCmds # <<>> /\ NotYetLoaded(name))
           /\ Len(last'.cbs) <= 1
           /\ (a.path \in DOMAIN handlers /\ readCmds # <<>> /\ NotYetLoaded(name)) =>
                /\ last'.cbs = << <<handlers[a.path], "load">> >>
                /\ pending'.kind = "load"
                /\ pending'.handler = handlers[a.path]
                /\ pending'.buf = wins'[curw']
                /\ bufs'[pending'.buf].name = name
                /\ parse(pending'.afile) = Bufname(Scheme, a.path, a.params, a.fragment)
     ]_vars

\* open("ab", {k: v}, "f") has had hRW's load invoked for the view it displays
C14_OpenTriggeredLoad ==
  /\ last.op = "open"
  /\ last.args = Args(<<"a", "b">>, ParamsKV, FragmentF)
  /\ last.cbs = << <<"hRW", "load">> >>
  /\ pending.kind = "load"
  /\ pending.buf = wins[curw]
  /\ parse(pending.afile).params = ParamsKV
  /\ parse(pending.afile).fragment = FragmentF

\* C15: Router.preload computes the name that open computes, has the content of
\* that name populated (the handler's load is invoked through the read signal and,
\* when it returns, the marker is set), and attaches the name to no window: neither
\* the preload nor the load it triggers changes the windows or the focus.
C15_PreloadNoWindow ==
  [][ /\ (last'.op = "preload") =>
           LET a == last'.args
               name == bufname(a.path, a.params, a.fragment)
           IN /\ UNCHANGED <<commands, wins, curw>>
              /\ (last'.ret.some) => (last'.ret.val = name)
              /\ (bufnameOk(a.path) /\ readCmds # <<>> /\ NotYetLoaded(name)) =>
                   /\ last'.cbs = << <<Resolved(a.path), "load">> >>
                   /\ pending'.kind = "load"
                   /\ bufs'[pending'.buf].name = name
                   /\ pending'.afile = name
      /\ (last'.op = "loadret" /\ pending.op = "preload") =>
           /\ UNCHANGED <<commands, wins, curw>>
           /\ (last'.result = "ok") =>
                /\ bufs'[pending.buf].content = "loaded"
                /\ bufs'[pending.buf].marker = Some(pending.args.path)
                /\ last'.ret = Some(bufname(pending.args.path, pending.args.params,
                                            pending.args.fragment))
     ]_vars

\* a preloaded name has its content and marker, and no window displays it
C15_PreloadedUnattached ==
  /\ last.op = "loadret"
  /\ last.result = "ok"
  /\ last.ret.some
  /\ bufs[last.buf].content = "loaded"
  /\ bufs[last.buf].marker = Some(last.args.path)
  /\ bufwinnr(last.buf) = -1
  /\ wins = <<0>>

\* a window displays the view named name
Displayed(name) ==
  \E w \in 1..Len(wins) : wins[w] \in BufNrs /\ bufs[wins[w]].name = name

\* C16: an open with reuse true, while a window displays the target's view name, only
\* moves the focus to that window (no view created, no window split, no load); every
\* other open -- reuse false or absent, or no window displaying the target's name --
\* never merely focuses: it runs the open command of its split style on the name.
C16_ReuseOnlyTarget ==
  [][ \A p \in Paths, o \in Openers :
        (bufnameOk(p) /\ Open(p, Absent, Absent, o)) =>
          LET name == bufname(p, Absent, Absent) IN
          IF o.reuse /\ Displayed(name)
          THEN /\ last'.host = <<"wincmd", "w">>
               /\ bufs[wins[curw']].name = name
               /\ UNCHANGED <<commands, bufs, nbufs, wins, pending>>
          ELSE /\ last'.host = getOpenCommand(o.split)
               /\ bufs'[wins'[curw']].name = name
     ]_vars

HorizontalStyles == {"split-top", "split-above", "split-below", "split-bottom"}
VerticalStyles == {"split-leftmost", "split-left", "split-right", "split-rightmost"}

\* where the split of a style is placed
PlaceOf(style) ==
  CASE style \in {"split-top", "split-leftmost"} -> "topleft"
    [] style \in {"split-above", "split-left"} -> "aboveleft"
    [] style \in {"split-below", "split-right"} -> "belowright"
    [] style \in {"split-bottom", "split-rightmost"} -> "botright"

\* C17: an open that does not reuse a window runs, in order, the split of the
\* requested style and the attaching of the target name to it: the four horizontal
\* styles run "new" at topleft/aboveleft/belowright/botright, the four vertical
\* ones "vnew" at the same places, tab runs "tabnew", and none, the empty string or
\* an absent style run "edit" in the current window, which splits nothing.  The
\* window the command ends in displays the target name and has the focus.
C17_OpenCommand ==
  [][ \A p \in Paths, o \in Openers :
        (bufnameOk(p) /\ Open(p, Absent, Absent, o)
           /\ openWinid(bufname(p, Absent, Absent), o) < 0) =>
          /\ bufs'[wins'[curw']].name = bufname(p, Absent, Absent)
          /\ IF o.split \in HorizontalStyles
             THEN last'.host = <<PlaceOf(o.split), "new">>
             ELSE IF o.split \in VerticalStyles
             THEN last'.host = <<PlaceOf(o.split), "vnew">>
             ELSE IF o.split = "split-tab"
             THEN last'.host = <<"tabnew">>
             ELSE last'.host = <<"edit">>
          /\ IF o.split \in HorizontalStyles \cup VerticalStyles \cup {"split-tab"}
             THEN /\ Len(wins') = Len(wins) + 1
                  /\ curw' = Len(wins')
                  /\ \A w \in 1..Len(wins) : wins'[w] = wins[w]
             ELSE /\ Len(wins') = Len(wins)
                  /\ curw' = curw
                  /\ \A w \in 1..Len(wins) : w # curw => wins'[w] = wins[w]
     ]_vars

\* open("a") with the style rightmost has split a second window for "s://a"
C17_SplitRightmost ==
  /\ last.op = "open"
  /\ last.host = <<"botright", "vnew">>
  /\ last.name = bufname(<<"a">>, Absent, Absent)
  /\ Len(wins) = 2
  /\ curw = 2
  /\ bufs[wins[2]].name = last.name

\* the words of the modifier string that the last call of parseMods was given
ModsGiven == last.op = "parseMods" /\ last.args.some /\ last.args.val # <<>>
GivenWords == Split(last.args.val, " ")

\* the keyword of a kind that is chosen: the last one in the string, <<>> when none
Chosen(keys) ==
  LET at == {i \in 1..Len(GivenWords) : GivenWords[i] \in keys} IN
  IF at = {} THEN <<>>
  ELSE GivenWords[CHOOSE i \in at : \A j \in at : j <= i]

\* the horizontal and the vertical style of a direction keyword
StylesOf(direction) ==
  CASE direction \in {W_aboveleft, W_leftabove} -> <<"split-above", "split-left">>
    [] direction \in {W_belowright, W_rightbelow} -> <<"split-below", "split-right">>
    [] direction = W_topleft -> <<"split-top", "split-leftmost">>
    [] direction = W_botright -> <<"split-bottom", "split-rightmost">>

\* C18: for every modifier string, parseMods follows the precedence rule.  With a
\* direction keyword (aboveleft/leftabove, belowright/rightbelow, topleft, botright)
\* and the orientation vertical the result is left, right, leftmost, rightmost;
\* with a direction keyword and the orientation horizontal, or no orientation
\* keyword, it is above, below, top, bottom; and when tab is the chosen orientation
\* the result is tab whatever direction keyword is present.  The chosen keyword of
\* a kind is the last one of that kind in the string.
C18_Precedence ==
  ModsGiven =>
    LET split == Chosen(SplitWords)
        direction == Chosen(DirectionWords)
    IN /\ ~last.ret.threw
       /\ (direction # <<>> /\ split = W_vertical) =>
            last.ret.val = StylesOf(direction)[2]
       /\ (direction # <<>> /\ split \in {W_horizontal, <<>>}) =>
            last.ret.val = StylesOf(direction)[1]
       /\ (split = W_tab) => last.ret.val = "split-tab"

\* parseMods("botright vertical") has returned the style rightmost
C18_BotrightVertical ==
  /\ last.op = "parseMods"
  /\ last.args = Some(Join(<<W_botright, W_vertical>>, <<" ">>))
  /\ last.ret = ParseResult("split-rightmost")

\* C19: parseMods fails with the invalid-modifier error for every modifier string
\* that holds a word that is no keyword, or two different orientation keywords, or
\* two different direction keywords; it returns a split style only for a string of
\* recognized, consistent keywords.
C19_InvalidModifier ==
  ModsGiven =>
    LET ws == {GivenWords[i] : i \in 1..Len(GivenWords)}
        unrecognized == ws \ (SplitWords \cup DirectionWords \cup {<<>>}) # {}
        contradictory == \/ Cardinality(ws \cap SplitWords) > 1
                         \/ Cardinality(ws \cap DirectionWords) > 1
    IN (unrecognized \/ contradictory) <=> last.ret.threw

\* C20: a registry write never fails and the last write wins.  handle(path, h)
\* leaves h, and nothing else, as the handler of path, and changes neither the
\* handler of any other path nor the fallback; handleFallback(h) leaves h as the
\* one fallback and changes no path's handler.  So after any sequence of writes a
\* path holds the handler most recently registered for it, and the fallback is the
\* one most recently set.
C20_LastWriteWins ==
  [][ /\ (last'.op = "handle") =>
           /\ last'.result = "ok"
           /\ DOMAIN handlers' = DOMAIN handlers \cup {last'.name}
           /\ handlers'[last'.name] = last'.handler
           /\ \A q \in DOMAIN handlers : q # last'.name => handlers'[q] = handlers[q]
           /\ defaultHandler' = defaultHandler
      /\ (last'.op = "handleFallback") =>
           /\ last'.result = "ok"
           /\ defaultHandler' = last'.handler
           /\ handlers' = handlers
     ]_vars

\* path "a" was registered with hRO, whose load filled the view of "s://a", and
\* has been registered again with hRW, which is now its handler
C20_Reregistered ==
  /\ last.op = "handle"
  /\ last.name = LifePath
  /\ last.handler = "hRW"
  /\ handlers[LifePath] = "hRW"
  /\ defaultHandler = None
  /\ \E v \in BufNrs : bufs[v].name = LifeName /\ bufs[v].loader = "hRO"

\* C21: load, save and action resolve from the name the view has when the signal
\* is handled, never from a name remembered from an earlier load: the name handed to
\* resolution by a read signal, a write signal or an action is the current name of
\* the view, and the handler whose callback is invoked is the one the registry
\* holds for the path of that name.
C21_CurrentName ==
  (LoadEntered \/ WriteEntered \/ last.op = "action") =>
    /\ last.name = hostBufname(last.buf)
    /\ (last.cbs # <<>>) =>
         last.handler = Resolved(parse(hostBufname(last.buf)).expr)

\* C22: whatever dispatches, opens, loads and reloads have happened, one read
\* signal is wired for the scheme and at most one write signal per view, so one
\* write event of the host invokes handler.save once: no view holds more than one
\* write intercept, and no save is invoked by a second intercept of a write event.
C22_OneSignalEach ==
  /\ Len(readCmds) <= 1
  /\ \A v \in BufNrs : Len(bufs[v].writeCmds) <= 1
  /\ (pending.kind = "save") => (pending.idx <= 1)

\* the methods that dispatch adds for a prefix
Methods == {"open", "preload", "action", "internal:load", "internal:save"}

\* the methods of the dispatcher, each a prefix and a name
DispatcherMethods == dispatcher \X Methods

\* C23: for every prefix given to dispatch the dispatcher holds the five methods
\* of that prefix, and every signal the Router has wired names a method that the
\* dispatcher holds: the read signal names the internal:load, and every write
\* intercept the internal:save, of a dispatched prefix.  So no read or write event
\* fails for want of the method, under the default prefix or any other.
C23_SignalsNameMethods ==
  /\ \A i \in 1..Len(readCmds) : <<readCmds[i], "internal:load">> \in DispatcherMethods
  /\ \A v \in BufNrs : \A i \in 1..Len(bufs[v].writeCmds) :
       <<bufs[v].writeCmds[i].prefix, "internal:save">> \in DispatcherMethods
  /\ (last.op = "dispatch") =>
       /\ readCmds # <<>>
       /\ \A m \in Methods : <<readCmds[1], m>> \in DispatcherMethods
  /\ last.result # "NoMethod"

\* under the prefix "plug" alone, a view was loaded and its write has reached
\* hRW.save
C23_OtherPrefixSaves ==
  /\ dispatcher = {OtherPrefix}
  /\ WriteEntered
  /\ last.cbs = << <<"hRW", "save">> >>
  /\ bufs[last.buf].writeCmds[1].prefix = OtherPrefix

\* C24: at most one handler callback is in flight for a view: while the load or the
\* save of a handler is suspended for view v, no step starts another load, save or
\* action callback for v.
C24_OneInFlight ==
  [][ (pending.kind \in {"load", "save"} /\ last'.cbs # <<>>) =>
        last'.buf # pending.buf ]_vars

\* C25: a callback suspended on view A does not block the other views: while the
\* load or the save of a handler is suspended for A, the read signal and the write
\* signal of every other view B that has content can be delivered, and an action
\* on B can be called.
C25_OthersNotBlocked ==
  (pending.kind \in {"load", "save"}) =>
    \A b \in BufNrs :
      (b # pending.buf /\ bufs[b].exists /\ bufs[b].loaded
         /\ Len(bufs[b].writeCmds) < MaxWriteCmds) =>
        /\ ENABLED Reload(b)
        /\ ENABLED Write(b)
        /\ ENABLED Action(b, "play")

\* the shapes an argument must not have: a path, a name or an action name that is
\* no string; a view id that is no number; a fragment that is neither absent nor a
\* string; params that are neither absent nor a mapping whose values are strings or
\* lists of strings; an opener that is neither absent nor a record whose split, if
\* any, is one of the styles and whose reuse, if any, is a boolean
WrongString(u) == u.t # "string"
WrongNumber(u) == u.t # "number"
WrongFragment(u) == u.t \notin {"undefined", "string"}
WrongParams(u) ==
  /\ u.t # "undefined"
  /\ \/ u.t # "record"
     \/ \E i \in 1..Len(u.v) : u.v[i][2].t \notin {"undefined", "string", "array"}
WrongOpener(u) ==
  /\ u.t # "undefined"
  /\ \/ u.t # "record"
     \/ u.v.split.t \notin {"undefined", "string"}
     \/ u.v.split.t = "string" /\ u.v.split.v \notin Splits \ {"undefined"}
     \/ u.v.reuse.t \notin {"undefined", "boolean"}

\* the request was rejected and nothing of the Router or of the host has changed
NothingRan ==
  /\ last'.result = "InvalidArgument"
  /\ last'.cbs = <<>>
  /\ UNCHANGED <<commands, handlers, defaultHandler, dispatcher, readCmds, bufs, nbufs, wins, curw,
                 pending>>

C27_EmptySchemeFails ==
  (last.op = "new" /\ last.name = <<>>) => last.fault


\* the sequence sub occurs in s
Contains(s, sub) == ReplaceAll(s, sub, <<>>) # s

\* a path the name's syntax can carry: no scheme separator and no percent escape
\* of its own in it
PlainPath(path) ==
  /\ ~Contains(path, SchemeSep)
  /\ ~Contains(path, <<"%", "3", "B">>)
  /\ ~Contains(path, <<"%", "2", "3">>)

\* the pairs of a params value, none for an absent one
PairsOf(params) == IF params.some THEN params.val ELSE <<>>

\* the name the last step created resolves to the handler registered at its path,
\* and parses to that path and to the params and the fragment it was created with
ResolvesBack ==
  LET m == Match(last.ret.val)
  IN /\ m.err = "ok"
     /\ m.path = last.args.path
     /\ m.handler = handlers[last.args.path]
     /\ m.bufname.scheme = Scheme
     /\ m.bufname.expr = last.args.path
     /\ PairsOf(m.bufname.params) = PairsOf(last.args.params)
     /\ m.bufname.fragment = last.args.fragment

CreatedForRegistered ==
  /\ last.op = "bufname"
  /\ last.ret.some
  /\ last.args.path \in DOMAIN handlers

C29_EditableIffSave ==
  \A v \in BufNrs :
    (bufs[v].exists /\ bufs[v].loader # None) =>
      ((bufs[v].modifiable /\ ~bufs[v].readonly) <=> HasSave(bufs[v].loader))

\* the name commandName gives the command of each path, for the scheme "s"
DefaultName ==
  [path \in CommandPaths |->
     IF path = <<"a">> THEN <<"S", "O", "p", "e", "n", "A">>
     ELSE <<"S", "O", "p", "e", "n", "A", "B">>]

\* the params each list of CommandArgs stands for
FlagParams == << <<>>, ParamsKV.val, ParamsKV.val >>

\* C30: a command set up without a name is defined under the Pascal-cased scheme,
\* Open and the Pascal-cased path; and running a command that was set up for a
\* registered path, through the dispatcher of any prefix, opens the name of that
\* path with the flags as its params.
C30_CommandOpens ==
  [][ /\ \A x \in {"router", OtherPrefix}, path \in CommandPaths :
           (SetupCommand(x, path, Absent) /\ ~last'.fault)
             => DefaultName[path] \in DOMAIN commands'
      /\ \A name \in DOMAIN commands, i \in DOMAIN CommandArgs :
           ( /\ commands[name].path \in DOMAIN handlers
             /\ InvokeCommand(name, CommandArgs[i]) )
             => /\ ~last'.fault
                /\ wins'[curw'] \in BufNrs
                /\ bufs'[wins'[curw']].name =
                     format(Bufname(Scheme, commands[name].path, Some(FlagParams[i]),
                                    Absent))
    ]_vars

\* C31: when the callbacks terminate, a view that entered Loading reaches
\* Loaded-Writable, Loaded-ReadOnly or LoadFailed, and a view that entered Saving
\* is Loaded-Writable again: no operation stays midway.
C31_Finishes ==
  \A v \in BufNrs :
    /\ (bufs[v].phase = "Loading")
          ~> (bufs[v].phase \in {"LoadedWritable", "LoadedReadOnly", "LoadFailed"})
    /\ (bufs[v].phase = "Saving") ~> (bufs[v].phase = "LoadedWritable")

\* a step enters the load callback for the view v
EntersLoad(v) == pending.kind # "load" /\ pending'.kind = "load" /\ pending'.buf = v

C33_RegistryAtSignal ==
  [][ /\ (last'.cbs # <<>> /\ last' # last) =>
           /\ parseOk(last'.name)
           /\ last'.cbs[1][1] = Resolved(parse(last'.name).expr)
           /\ handlers' = handlers /\ defaultHandler' = defaultHandler
      /\ \A path \in DOMAIN handlers : path \in DOMAIN handlers'
      /\ (defaultHandler # None) => (defaultHandler' # None)
    ]_vars

\* an action runs on the handler registered after the view was loaded by the
\* fallback
C33_RegisteredLater ==
  /\ last.op = "action"
  /\ last.cbs = << <<"hAlt", "play">> >>
  /\ bufs[last.buf].loader = "hRO"
  /\ bufs[last.buf].phase = "LoadedReadOnly"
  /\ handlers[LifePath] = "hAlt"
  /\ defaultHandler = "hRO"

\* what a load sets of a view: the marker, the flags and the write intercepts
LoadSet(buf) ==
  <<buf.marker, buf.swapfile, buf.modified, buf.modifiable, buf.readonly, buf.buftype,
    buf.writeCmds>>

\* a step returns from the load callback of the view v with an error
LoadThrows(v) ==
  /\ pending.kind = "load" /\ pending.buf = v
  /\ pending'.kind # "load"
  /\ last'.op = "loadret" /\ last'.fault

\* C34: entering the load callback of a view that exists changes nothing of what a
\* load sets, and a load callback that throws leaves the marker, the flags and the
\* write intercepts of the view as they were.
C34_SetAfterLoad ==
  [][ \A v \in BufNrs :
        /\ (EntersLoad(v) /\ bufs[v].exists) => LoadSet(bufs'[v]) = LoadSet(bufs[v])
        /\ LoadThrows(v) => LoadSet(bufs'[v]) = LoadSet(bufs[v])
    ]_vars

\* the reload of a modified view threw and the view is still modified and holds
\* the one write intercept of its first load
C34_ThrownReload ==
  /\ last.op = "loadret"
  /\ last.result = "HandlerThrew"
  /\ bufs[last.buf].modified
  /\ Len(bufs[last.buf].writeCmds) = 1
  /\ bufs[last.buf].phase = "LoadFailed"

\* a step returns from the load callback of the view v without an error
LoadReturns(v) ==
  /\ pending.kind = "load" /\ pending.buf = v
  /\ pending'.kind # "load"
  /\ last'.op = "loadret" /\ ~last'.fault

\* C35: the handler a read resolves when it enters load is the one whose load
\* fills the view, whose save decides whether the view becomes writable and whose
\* path becomes the marker, whatever is registered while load is suspended.
C35_ResolvedOnce ==
  [][ \A v \in BufNrs :
        /\ EntersLoad(v) =>
             /\ pending'.handler = Resolved(parse(pending'.afile).expr)
             /\ last'.cbs = << <<pending'.handler, "load">> >>
        /\ (pending.kind = "load" /\ pending'.kind = "load") => pending' = pending
        /\ LoadReturns(v) =>
             /\ bufs'[v].loader = pending.handler
             /\ bufs'[v].marker = Some(pending.path)
             /\ HasSave(pending.handler) =>
                  /\ Len(bufs'[v].writeCmds) = Len(bufs[v].writeCmds) + 1
                  /\ bufs'[v].buftype = "acwrite"
                  /\ bufs'[v].phase = "LoadedWritable"
             /\ ~HasSave(pending.handler) =>
                  /\ bufs'[v].writeCmds = bufs[v].writeCmds
                  /\ ~bufs'[v].modifiable /\ bufs'[v].readonly
                  /\ bufs'[v].phase = "LoadedReadOnly"
    ]_vars

\* a first load by a handler without save has finished read-only although a
\* handler with save was registered for the path while it was suspended
C35_ChangedWhileSuspended ==
  /\ last.op = "loadret"
  /\ last.result = "ok"
  /\ last.handler = "hRO"
  /\ handlers = (LifePath :> "hRW")
  /\ bufs[last.buf].loader = "hRO"
  /\ bufs[last.buf].writeCmds = <<>>
  /\ bufs[last.buf].readonly

\* C36: in the version that defines the commands, a write of a view that a handler
\* with save loaded, and that the registry still resolves to that handler, enters
\* that handler's save.
C36_WriteReachesSave ==
  ( /\ last.op = "write"
    /\ last.buf \in BufNrs
    /\ bufs[last.buf].loader \in SaveDefined
    /\ Resolved(parse(bufs[last.buf].name).expr) = bufs[last.buf].loader )
  => last.cbs = << <<bufs[last.buf].loader, "save">> >>

\* the word characters of a word from its i-th on, each in upper case when it
\* opens a run of word characters
RECURSIVE RunsFrom(_, _)
RunsFrom(word, i) ==
  IF i > Len(word) THEN <<>>
  ELSE (IF word[i] \notin WordChars THEN <<>>
        ELSE IF i = 1 \/ word[i - 1] \notin WordChars THEN <<toUpperCase(word[i])>>
        ELSE <<word[i]>>)
       \o RunsFrom(word, i + 1)

RECURSIVE RunsOfAll(_)
RunsOfAll(words) ==
  IF words = <<>> THEN <<>> ELSE RunsFrom(Head(words), 1) \o RunsOfAll(Tail(words))

\* C37: pascalWords returns, in the order of the words, the word characters of
\* each word, the first of every maximal run of them in upper case and the others
\* as they are; the other characters are dropped.
C37_PascalWords ==
  (last.op = "pascalWords") => last.ret = Some(RunsOfAll(last.args))

\* a one-character run and a run after several separators are capitalised
C37_RunsCapitalised ==
  /\ last.op = "pascalWords"
  /\ last.args = << <<"a", "/", "a">>, <<"/", "/", "a">> >>
  /\ last.ret = Some(<<"A", "A", "A">>)

=============================================================================
